---- MODULE Spec2Model ----
(***************************************************************************)
(* A model of the Wiley open-access harvester                              *)
(* (publishers/wiley_library.py, utils.py).                                *)
(*                                                                         *)
(* Strings are tuples of one-character strings, so that strip, the DOI     *)
(* pattern and string concatenation are computed as the code computes      *)
(* them.  An Optional value is a tuple of length 0 (None) or 1 (a value).  *)
(***************************************************************************)
EXTENDS Integers, Sequences, FiniteSets, TLC

(* ----------------------------------------------------------------------- *)
(* Bounds of the model and constants of the program                        *)
(* ----------------------------------------------------------------------- *)
\* How many records the result set of the search holds at most.
MaxRecords == 2
\* publisher_settings.MAX_ARTICLES.  The settings module is not among the
\* sources; the value is one that a result set of MaxRecords records exceeds.
MAX_ARTICLES == 1
\* publisher_settings.BATCH_SIZE (the SRU protocol's page size).
BATCH_SIZE == 20

None == <<>>
Some(v) == <<v>>
IsNone(o) == o = <<>>
Val(o) == o[1]

(* ----------------------------------------------------------------------- *)
(* clean_doi and its pattern DOI_CORE_RE                                   *)
(* ----------------------------------------------------------------------- *)
IsSpace(c) == c \in {" ", "\n", "\t"}
IsDigit(c) == c \in {"0", "1", "2", "3", "4", "5", "6", "7", "8", "9"}

RECURSIVE LStrip(_)
LStrip(s) == IF s # <<>> /\ IsSpace(Head(s)) THEN LStrip(Tail(s)) ELSE s

RECURSIVE RStrip(_)
RStrip(s) ==
    IF s # <<>> /\ IsSpace(s[Len(s)]) THEN RStrip(SubSeq(s, 1, Len(s) - 1)) ELSE s

\* Strip with the right end left as it is.
Strip_LeftOnly(s) == LStrip(s)

\* str.strip()
Strip(s) == RStrip(LStrip(s))

\* str.lower() on the letters the modelled strings use.
LowerChar(c) ==
    CASE c = "A" -> "a" [] c = "D" -> "d" [] c = "F" -> "f"
      [] c = "P" -> "p" [] OTHER -> c

Lower(s) == [i \in 1..Len(s) |-> LowerChar(s[i])]

\* The number of consecutive digits of s from position k on.
RECURSIVE DigitRun(_, _)
DigitRun(s, k) ==
    IF k <= Len(s) /\ IsDigit(s[k]) THEN 1 + DigitRun(s, k + 1) ELSE 0

\* DOI_CORE_RE with the greedy \S+ for the lazy \S+?.
DOI_CORE_RE_Greedy(s) ==
    LET n == DigitRun(s, 4)
        b == 4 + n + 1
        Ends == {e \in b..Len(s) :
                    /\ \A k \in b..e : ~IsSpace(s[k])
                    /\ (e = Len(s) \/ s[e + 1] = "@")}
    IN  IF /\ Len(s) >= 3
           /\ SubSeq(s, 1, 3) = <<"1", "0", ".">>
           /\ n >= 4 /\ n <= 9
           /\ 4 + n <= Len(s) /\ s[4 + n] = "/"
           /\ Ends # {}
        THEN CHOOSE e \in Ends : \A f \in Ends : e >= f
        ELSE 0

\* r'^(10\.\d{4,9}/\S+?)(?:@|$)' matched at the start of s: the length of
\* group 1, or 0 when the pattern does not match.  After "10." the digit run
\* must be followed by "/", so it is the whole run and has 4 to 9 digits; the
\* lazy \S+? then takes the fewest non-space characters (at least one) that
\* are followed by "@" or by the end of the string.
DOI_CORE_RE(s) ==
    LET n == DigitRun(s, 4)
        b == 4 + n + 1
        Ends == {e \in b..Len(s) :
                    /\ \A k \in b..e : ~IsSpace(s[k])
                    /\ (e = Len(s) \/ s[e + 1] = "@")}
    IN  IF /\ Len(s) >= 3
           /\ SubSeq(s, 1, 3) = <<"1", "0", ".">>
           /\ n >= 4 /\ n <= 9
           /\ 4 + n <= Len(s) /\ s[4 + n] = "/"
           /\ Ends # {}
        THEN CHOOSE e \in Ends : \A f \in Ends : e <= f
        ELSE 0

\* clean_doi(raw): None for None and for "", else group 1 of the match on the
\* stripped input, else the stripped input.
clean_doi(raw) ==
    IF IsNone(raw) \/ Val(raw) = <<>> THEN None
    ELSE LET s == Strip(Val(raw))
             m == DOI_CORE_RE(s)
         IN  IF m > 0 THEN Some(SubSeq(s, 1, m)) ELSE Some(s)

(* ----------------------------------------------------------------------- *)
(* Record nodes, _normalise_record, hashify                                *)
(* ----------------------------------------------------------------------- *)
DoiA == <<"1", "0", ".", "1", "0", "0", "2", "/", "a">>
DoiB == <<"1", "0", ".", "1", "0", "0", "2", "/", "b">>

\* The record nodes a page may hold, by their dc:identifier and dc:title
\* texts.  The second is the first with a decoration, the fourth has no
\* title, the last has no identifier.  A page holds indexes into this table.
NodeTable ==
    << [identifier |-> Some(DoiA), title |-> Some(<<"T">>)],
       [identifier |-> Some(DoiA \o <<"@", "v">>), title |-> Some(<<"T">>)],
       [identifier |-> Some(DoiB), title |-> Some(<<"T">>)],
       [identifier |-> Some(DoiA), title |-> None],
       [identifier |-> None, title |-> Some(<<"T">>)] >>

NodeSet == 1..Len(NodeTable)

\* _normalise_record: the fields the orchestrator reads.
_normalise_record(node) ==
    [doi |-> clean_doi(NodeTable[node].identifier),
     doi_raw |-> NodeTable[node].identifier,
     title |-> NodeTable[node].title]

\* Python truthiness of an Optional[str] or Optional[bytes]: None and the
\* empty value are false.
Truthy(o) == ~IsNone(o) /\ Val(o) # <<>>

\* Python truthiness of an Optional[int]: None and 0 are false.
TruthyInt(o) == ~IsNone(o) /\ Val(o) # 0

\* hashify: the SHA-256 hex digest, modelled as an injective tag of its input.
hashify(input) == [sha256 |-> input]

\* calc_hash = hashify(f"{doi} {title}") with title = record["title"] or "".
calc_hash_of(record) ==
    hashify(Val(record.doi) \o <<" ">>
            \o (IF Truthy(record.title) THEN Val(record.title) ELSE <<>>))

\* The sequences of at most n elements of S.
RECURSIVE SeqsUpTo(_, _)
SeqsUpTo(S, n) ==
    IF n = 0 THEN {<<>>}
    ELSE LET P == SeqsUpTo(S, n - 1)
         IN  P \cup {Append(p, x) : p \in {q \in P : Len(q) = n - 1}, x \in S}

\* The pages _fetch_wiley_page may return while the result set has `left`
\* more records: at most maximumRecords = min(BATCH_SIZE, 20) nodes.
Min(a, b) == IF a <= b THEN a ELSE b

Pages(left) == SeqsUpTo(NodeSet, Min(left, Min(BATCH_SIZE, 20)))


(* ----------------------------------------------------------------------- *)
(* What the collaborators of one run may answer                            *)
(* ----------------------------------------------------------------------- *)
\* _normalise_record on a node: returns, or raises on a malformed node.
NormaliseOutcomes == {"ok", "raise"}
\* is_openaccess_pdf: True, False, None, or an exception raised before its
\* own try block (create_scraper, the assert of the URL builder).
ProbeOutcomes == {"true", "false", "null", "raise"}
\* get_pdf_content_for_wiley: bytes, b"", None, or an exception.
PdfOutcomes == {"bytes", "empty", "null", "raise"}
\* extract_principal_author_and_email: the email of the pair, or an exception.
EmailOutcomes == {"addr", "empty", "null", "raise"}
\* save_pdf: returns the path, or raises (OSError).
SaveOutcomes == {"ok", "raise"}

PdfValue(p) ==
    IF p = "bytes" THEN Some(<<"%", "P", "D", "F">>)
    ELSE IF p = "empty" THEN Some(<<>>) ELSE None

EmailValue(e) ==
    IF e = "addr" THEN Some(<<"j", "@", "x">>)
    ELSE IF e = "empty" THEN Some(<<>>) ELSE None

\* The next-position values a page fetch may return after a fetch at `pos`
\* that delivered n records: none, the digit string "0", or the position of
\* the record behind the delivered ones.
Cursors(pos, n) == {None, Some(0), Some(pos + n)}

StartPages == {0, 1, 2}

(* ----------------------------------------------------------------------- *)
(* State of one process_wiley_library run                                  *)
(* ----------------------------------------------------------------------- *)
VARIABLES
    start_page,          \* the start_page argument
    pc,                  \* where the run is
    page,                \* the page counter
    next_pos,            \* Optional[int]: the cursor of the next fetch
    total_processed,
    processed_articles,
    seen_hashes,
    nodes,               \* the nodes of the current page
    open_access_nodes,   \* indexes into nodes, in the order appended
    ni,                  \* position of the filter loop in nodes
    oi,                  \* position of the processing loop in open_access_nodes
    \* history of the run, read by the properties only
    raised_in,           \* what raised out of the run: "none" | "page_fetch" | "node"
    pages_fetched,       \* calls of _fetch_wiley_page made
    pages_finished,      \* non-empty pages whose processing ended
    cur,                 \* what the latest step did to a node, if it handled one
    n_pdf_fetches,       \* calls of get_pdf_content_for_wiley made
    n_saves,             \* calls of save_pdf made
    n_passed,            \* records that passed every stage, save_pdf included
    page_good,           \* the current page had a record that passed every stage
    all_good,            \* every finished page was good and carried a cursor
    feed_left,           \* records of the result set no page has delivered yet
    fetched_at,          \* Optional[int]: start_record of the latest page fetch
    n_inserts,           \* calls of insert_query.insert_record made
    artifacts,           \* the files written: [name, calc_hash] of each save_pdf
    n_written,           \* calls of save_pdf that wrote their file and returned
    \* one call of is_openaccess_pdf
    probe_pc,            \* "HEAD" | "GET" | "RETURNED"
    head_resp,           \* Optional: the response to the HEAD request
    get_resp,            \* Optional: the response to the fallback GET
    probe_ret,           \* what the call returned: "true" | "false" | "null"
    probe_requests,      \* the requests the call sent, in order
    \* one call of get_pdf_content_for_wiley
    f_doi,               \* Optional[str]: the doi argument
    f_landing,           \* Optional[str]: the landing_url argument
    f_pc,                \* "START" | "GET" | "RETURNED"
    f_candidates,        \* the candidate URLs, in order
    f_ci,                \* position of the outer loop in f_candidates
    f_attempt,           \* the attempt of the inner loop, from 0
    f_last,              \* Optional: the response to the latest GET, None if it raised
    f_slept,             \* milliseconds slept in the latest step
    f_tried,             \* the candidate position of every GET sent, in order
    f_ret,               \* Optional[bytes]: what the call returned
    \* one call of _fetch_wiley_page
    g_pc,                \* "TRY" | "RETURNED" | "RAISED"
    g_attempt,           \* the attempt of the loop, from 0
    g_last_exc,          \* last_exc: "none" or the name of the exception
    g_last,              \* what the latest attempt got
    g_sleeps,            \* milliseconds of every sleep of the call, in order
    g_ret,               \* Optional: the (nodes, next_pos) returned
    g_raised,            \* the exception raised to the caller, "none" without
    \* clean_doi applied to an input, and to its own result
    d_pc,                \* "INPUT" | "ONCE" | "TWICE"
    d_raw,               \* Optional[str]: the input
    d_once,              \* clean_doi(raw)
    d_twice,             \* clean_doi(clean_doi(raw))
    \* one call of extract_principal_author_and_email
    e_pc,                \* "OPEN" | "PAGES" | "RETURNED"
    e_doc,               \* what PdfReader finds in pdf_content
    e_i,                 \* position of the loop in reader.pages
    e_parts,             \* text_parts
    e_text,              \* Optional[str]: text, once joined
    e_ret,               \* Optional: the (name, email) returned
    \* save_pdf called with a name, and then with that name plus ".pdf"
    s_pc,                \* "MAKEDIRS" | "WRITE" | "RETURNED" | "RAISED"
    s_call,              \* 1 in the first call, 2 in the second
    s_name,              \* the name of the first call
    s_content,           \* pdf_content
    s_dir,               \* the downloads directory exists
    s_files,             \* the files of the directory: [path, content]
    s_rets               \* what the calls returned so far, in order

hvars == <<start_page, pc, page, next_pos, total_processed, processed_articles,
           seen_hashes, nodes, open_access_nodes, ni, oi, raised_in,
           pages_fetched, pages_finished, cur, n_pdf_fetches, n_saves,
           n_passed, page_good, all_good, feed_left, fetched_at, n_inserts,
           artifacts, n_written>>

pvars == <<probe_pc, head_resp, get_resp, probe_ret, probe_requests>>

fvars == <<f_doi, f_landing, f_pc, f_candidates, f_ci, f_attempt, f_last,
           f_slept, f_tried, f_ret>>

gvars == <<g_pc, g_attempt, g_last_exc, g_last, g_sleeps, g_ret, g_raised>>

dvars == <<d_pc, d_raw, d_once, d_twice>>

evars == <<e_pc, e_doc, e_i, e_parts, e_text, e_ret>>

svars == <<s_pc, s_call, s_name, s_content, s_dir, s_files, s_rets>>

vars == <<hvars, pvars, fvars, gvars, dvars, evars, svars>>

\* kind: "none" | "filter" | "process"; idx: the node's index in nodes;
\* probe, pdf, email, save: the answer of the call, "not_called" without it;
\* exc: an exception reached the loop's handler; dup: the fingerprint was seen.
NoCur ==
    [kind |-> "none", idx |-> 0, exc |-> FALSE, dup |-> FALSE,
     probe |-> "not_called", pdf |-> "not_called", email |-> "not_called",
     save |-> "not_called"]

ProbeInit ==
    /\ probe_pc = "HEAD"
    /\ head_resp = None
    /\ get_resp = None
    /\ probe_ret = "pending"
    /\ probe_requests = <<>>

HarvestInit ==
    /\ start_page \in StartPages
    /\ pc = "START"
    /\ page = 0
    /\ next_pos = None
    /\ total_processed = 0
    /\ processed_articles = <<>>
    /\ seen_hashes = {}
    /\ nodes = <<>>
    /\ open_access_nodes = <<>>
    /\ ni = 0
    /\ oi = 0
    /\ raised_in = "none"
    /\ pages_fetched = 0
    /\ pages_finished = 0
    /\ cur = NoCur
    /\ n_pdf_fetches = 0
    /\ n_saves = 0
    /\ n_passed = 0
    /\ page_good = FALSE
    /\ all_good = TRUE
    /\ feed_left = MaxRecords
    /\ fetched_at = None
    /\ n_inserts = 0
    /\ artifacts = {}
    /\ n_written = 0

\* get_pdf_content_for_wiley about to be called with (doi, landing_url).
PdfInit(doi, landing_url) ==
    /\ f_doi = doi
    /\ f_landing = landing_url
    /\ f_pc = "START"
    /\ f_candidates = <<>>
    /\ f_ci = 0
    /\ f_attempt = 0
    /\ f_last = None
    /\ f_slept = 0
    /\ f_tried = <<>>
    /\ f_ret = None

\* kind: "none" | "resp" | "exc"; exc: the exception requests.get raised;
\* status, nxt, nodes: the response's status, the text of its
\* zs:nextRecordPosition element (None without one) and its record nodes.
NoAttempt ==
    [kind |-> "none", exc |-> "none", status |-> 0, nxt |-> None, nodes |-> <<>>]

\* _fetch_wiley_page about to make its first attempt.
PageInit ==
    /\ g_pc = "TRY"
    /\ g_attempt = 0
    /\ g_last_exc = "none"
    /\ g_last = NoAttempt
    /\ g_sleeps = <<>>
    /\ g_ret = None
    /\ g_raised = "none"

\* clean_doi about to be called with raw.
DoiInit(raw) ==
    /\ d_pc = "INPUT"
    /\ d_raw = raw
    /\ d_once = None
    /\ d_twice = None

\* extract_principal_author_and_email about to be called on a document.
ExtractInit(doc) ==
    /\ e_pc = "OPEN"
    /\ e_doc = doc
    /\ e_i = 1
    /\ e_parts = <<>>
    /\ e_text = None
    /\ e_ret = None

\* A document PdfReader cannot open.
NoDoc == [readable |-> FALSE, pages |-> <<>>]

\* save_pdf about to be called with a name and bytes; dir tells whether the
\* downloads directory is there already.
SaveInit(name, content, dir) ==
    /\ s_pc = "MAKEDIRS"
    /\ s_call = 1
    /\ s_name = name
    /\ s_content = content
    /\ s_dir = dir
    /\ s_files = {}
    /\ s_rets = <<>>

Init ==
    /\ ProbeInit
    /\ HarvestInit
    /\ PdfInit(None, None)
    /\ PageInit
    /\ DoiInit(None)
    /\ ExtractInit(NoDoc)
    /\ SaveInit(<<>>, <<>>, FALSE)

(* ----------------------------------------------------------------------- *)
(* The conditions of the orchestrator                                      *)
(* ----------------------------------------------------------------------- *)
\* LoopContinues with the cursor tested by `is not None`.
LoopContinues_IsNotNone(total, pos) == total < MAX_ARTICLES /\ ~IsNone(pos)

\* while total_processed < MAX_ARTICLES and next_pos:
LoopContinues(total, pos) == total < MAX_ARTICLES /\ TruthyInt(pos)

\* ProbeAccepts with the answer tested by `is not False`.
ProbeAccepts_NotFalse(res) == res # "false"

\* if is_openaccess_pdf(doi=doi): open_access_nodes.append(node)
ProbeAccepts(res) == res = "true"

\* IsDuplicate with the membership test lost.
IsDuplicate_Never(h, seen) == FALSE

\* if calc_hash in seen_hashes: continue
IsDuplicate(h, seen) == h \in seen

\* if not pdf_content: continue
SkipNoPdf(pdf_content) == ~Truthy(pdf_content)

\* SkipNoEmail with the email tested by `is None`.
SkipNoEmail_IsNone(author_email) == IsNone(author_email)

\* if not author_email: continue
SkipNoEmail(author_email) == ~Truthy(author_email)

\* ExceptContinue with the handler raising again.
ExceptContinue_Reraise(resume) == "RAISED"

\* except Exception as e: print(...); continue
\* The handler of both per-node loops: the loop goes on at `resume`.
ExceptContinue(resume) == resume

\* StartRecord with the position computed from the page counter.
StartRecord_FromPage(pos, p) == (p - 1) * BATCH_SIZE + 1

\* start_record=next_pos                                       (line 322)
StartRecord(pos, p) == pos

\* Collect with the node put in front.
Collect_InFront(collected, node) == <<node>> \o collected

\* open_access_nodes.append(node)                              (line 340)
Collect(collected, node) == Append(collected, node)

\* MarkSeen with the fingerprint not kept.
MarkSeen_Forget(seen, h) == seen

\* seen_hashes.add(calc_hash)                                  (line 361)
MarkSeen(seen, h) == seen \cup {h}

\* NextPageCounter with the increment lost.
NextPageCounter_Stuck(p) == p

\* page += 1
NextPageCounter(p) == p + 1

(* ----------------------------------------------------------------------- *)
(* The steps of process_wiley_library                                      *)
(* ----------------------------------------------------------------------- *)
\* Lines 297-318: the run's own state, the first cursor, the first loop test.
Start ==
    /\ pc = "START"
    /\ page' = IF start_page > 0 THEN start_page ELSE 1
    /\ next_pos' = IF start_page < 1 THEN Some(1)
                   ELSE Some((start_page - 1) * BATCH_SIZE + 1)
    /\ pc' = IF LoopContinues(total_processed, next_pos')
             THEN "FETCHING_PAGE" ELSE "DONE"
    /\ UNCHANGED <<start_page, total_processed, processed_articles,
                   seen_hashes, nodes, open_access_nodes, ni, oi, raised_in,
                   pages_fetched, pages_finished, cur, n_pdf_fetches,
                   n_saves, n_passed, page_good, all_good, feed_left>>
    /\ UNCHANGED <<fetched_at, n_inserts, artifacts, n_written>>
    /\ UNCHANGED <<pvars, fvars, gvars, dvars, evars, svars>>

\* Lines 319-331: one call of _fetch_wiley_page.  It raises, or it returns
\* the nodes of the page and the next position; an empty page ends the loop.
FetchPage ==
    /\ pc = "FETCHING_PAGE"
    /\ pages_fetched' = pages_fetched + 1
    /\ fetched_at' = Some(StartRecord(Val(next_pos), page))
    /\ \/ /\ pc' = "RAISED"
          /\ raised_in' = "page_fetch"
          /\ UNCHANGED <<nodes, next_pos, open_access_nodes, ni, oi, page_good,
                         feed_left>>
       \/ \E nds \in Pages(feed_left) :
          \E nxt \in Cursors(StartRecord(Val(next_pos), page), Len(nds)) :
             /\ nodes' = nds
             /\ feed_left' = feed_left - Len(nds)
             /\ next_pos' = nxt
             /\ raised_in' = raised_in
             /\ IF nds = <<>>
                THEN /\ pc' = "DONE"
                     /\ UNCHANGED <<open_access_nodes, ni, oi, page_good>>
                ELSE /\ pc' = "FILTERING_OPEN_ACCESS"
                     /\ open_access_nodes' = <<>>
                     /\ ni' = 1
                     /\ oi' = 0
                     /\ page_good' = FALSE
    /\ cur' = NoCur
    /\ UNCHANGED <<start_page, page, total_processed, processed_articles,
                   seen_hashes, pages_finished, n_pdf_fetches, n_saves,
                   n_passed, all_good>>
    /\ UNCHANGED <<n_inserts, artifacts, n_written>>
    /\ UNCHANGED <<pvars, fvars, gvars, dvars, evars, svars>>

\* One iteration of the filter loop (lines 333-343) on a node: whether an
\* exception reached the handler, the probe's answer ("not_called" when
\* _normalise_record raised or the record has no DOI), whether the node is kept.
FilterRecord(node, norm, probe) ==
    LET base == [exc |-> FALSE, probe |-> "not_called", keep |-> FALSE]
    IN
    IF norm = "raise" THEN [base EXCEPT !.exc = TRUE]
    ELSE IF ~Truthy(_normalise_record(node).doi) THEN base
    ELSE IF probe = "raise" THEN [base EXCEPT !.exc = TRUE, !.probe = probe]
    ELSE [base EXCEPT !.probe = probe, !.keep = ProbeAccepts(probe)]

\* Lines 333-343: one node of the filter loop.
FilterNode ==
    /\ pc = "FILTERING_OPEN_ACCESS"
    /\ ni <= Len(nodes)
    /\ \E r \in {FilterRecord(nodes[ni], norm, probe) :
                    norm \in NormaliseOutcomes, probe \in ProbeOutcomes} :
          LET resume == IF ni = Len(nodes) THEN "PROCESSING_RECORD"
                        ELSE "FILTERING_OPEN_ACCESS"
          IN  /\ cur' = [NoCur EXCEPT !.kind = "filter", !.idx = ni,
                                     !.exc = r.exc, !.probe = r.probe]
              /\ open_access_nodes' = IF r.keep THEN Collect(open_access_nodes, ni)
                                      ELSE open_access_nodes
              /\ pc' = IF r.exc THEN ExceptContinue(resume) ELSE resume
              /\ raised_in' = IF pc' = "RAISED" THEN "node" ELSE raised_in
    /\ ni' = ni + 1
    /\ oi' = IF ni = Len(nodes) THEN 1 ELSE oi
    /\ UNCHANGED <<start_page, page, next_pos, total_processed,
                   processed_articles, seen_hashes, nodes, pages_fetched,
                   pages_finished, n_pdf_fetches, n_saves, n_passed,
                   page_good, all_good, feed_left>>
    /\ UNCHANGED <<fetched_at, n_inserts, artifacts, n_written>>
    /\ UNCHANGED <<pvars, fvars, gvars, dvars, evars, svars>>

\* Lines 384-413 after save_pdf returned: the article record and the insert
\* that appended it and counted it stand in a comment, so the list and the
\* counter are left as they are.
processed_after(articles, article) == articles

\* total_after with the record counted though it is not appended.
total_after_Counted(total) == total + 1

total_after(total) == total

\* Line 407, insert_query.insert_record('INSERT', **article_data), stands in
\* the same comment: no insert call is made.
inserts_after(inserts) == inserts

\* publisher_settings.PUBLISHER_NAME_FOR_DB.  The settings module is not
\* among the sources; the value is the one the file names of the tests show.
\* Names are sequences of pieces, a DOI's characters among them.
PUBLISHER_NAME_FOR_DB == <<"WileyLibrary">>

\* The keywords argument of the run.
Keywords == << <<"c", "l", "i">>, <<"A">> >>

\* sep.join(parts)
RECURSIVE Join(_, _)
Join(parts, sep) ==
    IF parts = <<>> THEN <<>>
    ELSE IF Len(parts) = 1 THEN parts[1]
    ELSE parts[1] \o sep \o Join(Tail(parts), sep)

\* s.split('/')[-1]
RECURSIVE LastSegment(_)
LastSegment(s) ==
    IF s = <<>> \/ s[Len(s)] = "/" THEN <<>>
    ELSE LastSegment(SubSeq(s, 1, Len(s) - 1)) \o <<s[Len(s)]>>

\* Lines 375-377: the name the PDF of a record is saved under.
pdf_name_of(keywords, doi) ==
    LET wrapper_keywords == IF keywords # <<>> THEN Lower(Join(keywords, <<"_">>))
                            ELSE <<"a", "l", "l">>
        doi_suffix == LastSegment(IF Truthy(doi) THEN Val(doi)
                                  ELSE <<"n", "o", "-", "d", "o", "i">>)
    IN  PUBLISHER_NAME_FOR_DB \o <<"_">> \o wrapper_keywords \o <<"_">>
            \o doi_suffix \o <<".", "p", "d", "f">>

\* str.endswith
EndsWith(s, suffix) ==
    Len(s) >= Len(suffix) /\ SubSeq(s, Len(s) - Len(suffix) + 1, Len(s)) = suffix

\* with_pdf_extension with the ending compared as it is written.
with_pdf_extension_CaseSensitive(pdf_name) ==
    IF ~EndsWith(pdf_name, <<".", "p", "d", "f">>)
    THEN pdf_name \o <<".", "p", "d", "f">> ELSE pdf_name

\* save_pdf, lines 26-27: the name with ".pdf" ensured.
\* if not pdf_name.lower().endswith(".pdf"): pdf_name += ".pdf"
with_pdf_extension(pdf_name) ==
    IF ~EndsWith(Lower(pdf_name), <<".", "p", "d", "f">>)
    THEN pdf_name \o <<".", "p", "d", "f">> ELSE pdf_name

\* os.path.join(project_root, "downloads")
downloads_dir == <<"<project_root>", "/", "downloads">>

\* os.path.join(a, b) for a non-empty b: an absolute b stands alone.
PathJoin(a, b) == IF b[1] = "/" THEN b ELSE a \o <<"/">> \o b

\* save_pdf, line 30: full_path = os.path.join(downloads_dir, pdf_name)
full_path_of(pdf_name) == PathJoin(downloads_dir, with_pdf_extension(pdf_name))

\* One iteration of the processing loop (lines 346-382) on a node, given the
\* fingerprints seen so far and what the collaborators answer.  The fields
\* pdf, email and save hold "not_called" for a call the iteration never made.
ProcessRecord(node, seen, norm, pdf, email, save) ==
    LET base == [exc |-> FALSE, dup |-> FALSE, hash |-> None, seen |-> seen,
                 pdf |-> "not_called", email |-> "not_called",
                 save |-> "not_called", passed |-> FALSE]
    IN
    IF norm = "raise" THEN [base EXCEPT !.exc = TRUE]
    ELSE
    LET record == _normalise_record(node)
        h == calc_hash_of(record)
        hashed == [base EXCEPT !.hash = Some(h)]
    IN
    IF IsDuplicate(h, seen) THEN [hashed EXCEPT !.dup = TRUE]
    ELSE
    LET marked == [hashed EXCEPT !.seen = MarkSeen(seen, h), !.pdf = pdf]
    IN
    IF pdf = "raise" THEN [marked EXCEPT !.exc = TRUE]
    ELSE IF SkipNoPdf(PdfValue(pdf)) THEN marked
    ELSE
    LET extracted == [marked EXCEPT !.email = email]
    IN
    IF email = "raise" THEN [extracted EXCEPT !.exc = TRUE]
    ELSE IF SkipNoEmail(EmailValue(email)) THEN extracted
    ELSE
    LET saved == [extracted EXCEPT !.save = save]
    IN
    IF save = "raise" THEN [saved EXCEPT !.exc = TRUE]
    ELSE [saved EXCEPT !.passed = TRUE]

\* Lines 345-420: one open-access node of the processing loop.
ProcessNode ==
    /\ pc = "PROCESSING_RECORD"
    /\ oi <= Len(open_access_nodes)
    /\ \E r \in {ProcessRecord(nodes[open_access_nodes[oi]], seen_hashes,
                                norm, pdf, email, save) :
                    norm \in NormaliseOutcomes, pdf \in PdfOutcomes,
                    email \in EmailOutcomes, save \in SaveOutcomes} :
          LET idx == open_access_nodes[oi]
              article == [doi |-> _normalise_record(nodes[idx]).doi,
                          title |-> _normalise_record(nodes[idx]).title,
                          author_email |-> EmailValue(r.email),
                          calc_hash |-> r.hash]
              total == IF r.passed THEN total_after(total_processed)
                       ELSE total_processed
              \* if total_processed >= MAX_ARTICLES: break
              capped == r.passed /\ total >= MAX_ARTICLES
          IN  /\ seen_hashes' = r.seen
              /\ processed_articles' =
                    IF r.passed THEN processed_after(processed_articles, article)
                    ELSE processed_articles
              /\ total_processed' = total
              /\ n_pdf_fetches' = IF r.pdf # "not_called" THEN n_pdf_fetches + 1
                                  ELSE n_pdf_fetches
              /\ n_saves' = IF r.save # "not_called" THEN n_saves + 1 ELSE n_saves
              /\ n_passed' = IF r.passed THEN n_passed + 1 ELSE n_passed
              /\ n_inserts' = IF r.passed THEN inserts_after(n_inserts)
                              ELSE n_inserts
              /\ n_written' = IF r.save = "ok" THEN n_written + 1 ELSE n_written
              /\ artifacts' =
                    IF r.save = "ok"
                    THEN artifacts \cup
                         {[name |-> full_path_of(pdf_name_of(Keywords, article.doi)),
                           calc_hash |-> Val(r.hash)]}
                    ELSE artifacts
              /\ page_good' = (page_good \/ r.passed)
              /\ cur' = [NoCur EXCEPT !.kind = "process", !.idx = idx,
                                     !.exc = r.exc, !.dup = r.dup,
                                     !.probe = "true", !.pdf = r.pdf,
                                     !.email = r.email, !.save = r.save]
              /\ pc' = IF r.exc THEN ExceptContinue("PROCESSING_RECORD")
                       ELSE IF capped THEN "PAGE_DONE"
                       ELSE "PROCESSING_RECORD"
              /\ raised_in' = IF pc' = "RAISED" THEN "node" ELSE raised_in
    /\ oi' = oi + 1
    /\ UNCHANGED <<start_page, page, next_pos, nodes, open_access_nodes, ni,
                   pages_fetched, pages_finished, all_good, feed_left>>
    /\ UNCHANGED fetched_at
    /\ UNCHANGED <<pvars, fvars, gvars, dvars, evars, svars>>

\* Line 345, the loop over open_access_nodes is exhausted.
EndOfNodes ==
    /\ pc = "PROCESSING_RECORD"
    /\ oi > Len(open_access_nodes)
    /\ pc' = "PAGE_DONE"
    /\ cur' = NoCur
    /\ UNCHANGED <<start_page, page, next_pos, total_processed,
                   processed_articles, seen_hashes, nodes, open_access_nodes,
                   ni, oi, raised_in, pages_fetched, pages_finished,
                   n_pdf_fetches, n_saves, n_passed, page_good, all_good,
                   feed_left>>
    /\ UNCHANGED <<fetched_at, n_inserts, artifacts, n_written>>
    /\ UNCHANGED <<pvars, fvars, gvars, dvars, evars, svars>>

\* Lines 422-427 and the loop test of line 318: at the cap the loop is left
\* before the page counter moves; else the counter moves and the while
\* condition decides between another fetch and the return.
PageDone ==
    /\ pc = "PAGE_DONE"
    /\ pages_finished' = pages_finished + 1
    /\ all_good' = (all_good /\ page_good /\ ~IsNone(next_pos))
    /\ cur' = NoCur
    /\ IF total_processed >= MAX_ARTICLES
       THEN /\ pc' = "DONE"
            /\ page' = page
       ELSE /\ page' = NextPageCounter(page)
            /\ pc' = IF LoopContinues(total_processed, next_pos)
                     THEN "FETCHING_PAGE" ELSE "DONE"
    /\ UNCHANGED <<start_page, next_pos, total_processed, processed_articles,
                   seen_hashes, nodes, open_access_nodes, ni, oi, raised_in,
                   pages_fetched, n_pdf_fetches, n_saves, n_passed, page_good,
                   feed_left>>
    /\ UNCHANGED <<fetched_at, n_inserts, artifacts, n_written>>
    /\ UNCHANGED <<pvars, fvars, gvars, dvars, evars, svars>>

Next ==
    \/ Start
    \/ FetchPage
    \/ FilterNode
    \/ ProcessNode
    \/ EndOfNodes
    \/ PageDone

Spec == Init /\ [][Next]_vars


(* ----------------------------------------------------------------------- *)
(* is_openaccess_pdf                                                       *)
(* ----------------------------------------------------------------------- *)
\* sub in s
Contains(s, sub) ==
    \E i \in 1..(Len(s) - Len(sub) + 1) : SubSeq(s, i, i + Len(sub) - 1) = sub

\* The Content-Type headers a response may carry: none, an empty one,
\* "app/pdf", "APP/PDF", "text/html", "text/xml".
CTypes ==
    { None, Some(<<>>),
      Some(<<"a", "p", "p", "/", "p", "d", "f">>),
      Some(<<"A", "P", "P", "/", "P", "D", "F">>),
      Some(<<"t", "e", "x", "t", "/", "h", "t", "m", "l">>),
      Some(<<"t", "e", "x", "t", "/", "x", "m", "l">>) }

Statuses == {200, 403, 404, 405, 500}

Responses == [status : Statuses, ctype : CTypes]

\* (resp.headers.get("Content-Type") or "").lower()
ctype_of(resp) == IF Truthy(resp.ctype) THEN Lower(Val(resp.ctype)) ELSE <<>>

\* if status == 200 and "pdf" in ctype: return True          (line 260)
HeadConfirms(resp) ==
    resp.status = 200 /\ Contains(ctype_of(resp), <<"p", "d", "f">>)

\* NeedsFallback with 405 not taken for a blocked HEAD.
NeedsFallback_No405(resp) == resp.status \in {403, 404} \/ ctype_of(resp) = <<>>

\* if status in (403, 404, 405) or not ctype:                  (line 265)
NeedsFallback(resp) == resp.status \in {403, 404, 405} \/ ctype_of(resp) = <<>>

\* GetConfirms with the content type not looked at.
GetConfirms_StatusOnly(resp) == resp.status = 200

\* if resp.status_code == 200 and "pdf" in gtype: return True  (line 268)
GetConfirms(resp) ==
    resp.status = 200 /\ Contains(ctype_of(resp), <<"p", "d", "f">>)

\* The exceptions a request of the scraper may raise.
TransportErrors == {"ConnectionError", "Timeout"}

\* ProbeExcept with a failed request taken for a refusal.
ProbeExcept_False(e) == "false"

\* except Exception as e: print(...); return None           (lines 282-284)
ProbeExcept(e) == "null"

\* Lines 256-280: the HEAD request.  A transport exception returns None; a
\* 200 with a PDF type returns True; a blocked or typeless answer goes on to
\* the streamed GET; anything else (lines 275-280) returns False.
ProbeHead ==
    /\ probe_pc = "HEAD"
    /\ probe_requests' = Append(probe_requests, "HEAD")
    /\ \/ /\ probe_pc' = "RETURNED"
          /\ \E e \in TransportErrors : probe_ret' = ProbeExcept(e)
          /\ head_resp' = head_resp
       \/ \E resp \in Responses :
             /\ head_resp' = Some(resp)
             /\ IF HeadConfirms(resp)
                THEN probe_pc' = "RETURNED" /\ probe_ret' = "true"
                ELSE IF NeedsFallback(resp)
                THEN probe_pc' = "GET" /\ probe_ret' = probe_ret
                ELSE probe_pc' = "RETURNED" /\ probe_ret' = "false"
    /\ UNCHANGED <<get_resp, hvars, fvars, gvars, dvars, evars, svars>>

\* Lines 266-273 and 282-284: the fallback GET decides alone.
ProbeGet ==
    /\ probe_pc = "GET"
    /\ probe_requests' = Append(probe_requests, "GET")
    /\ probe_pc' = "RETURNED"
    /\ \/ /\ \E e \in TransportErrors : probe_ret' = ProbeExcept(e)
          /\ get_resp' = get_resp
       \/ \E resp \in Responses :
             /\ get_resp' = Some(resp)
             /\ probe_ret' = IF GetConfirms(resp) THEN "true" ELSE "false"
    /\ UNCHANGED <<head_resp, hvars, fvars, gvars, dvars, evars, svars>>

NextProbe ==
    \/ ProbeHead
    \/ ProbeGet

InitProbe ==
    /\ ProbeInit
    /\ HarvestInit
    /\ start_page = 1
    /\ PdfInit(None, None)
    /\ PageInit
    /\ DoiInit(None)
    /\ ExtractInit(NoDoc)
    /\ SaveInit(<<>>, <<>>, FALSE)

SpecProbe == InitProbe /\ [][NextProbe]_vars


(* ----------------------------------------------------------------------- *)
(* Properties of process_wiley_library                                     *)
(* ----------------------------------------------------------------------- *)
\* A step of the filter loop on nodes[ni].
FilterStep == pc = "FILTERING_OPEN_ACCESS" /\ ni' = ni + 1

\* A step of the processing loop on nodes[open_access_nodes[oi]].
ProcessStep ==
    pc = "PROCESSING_RECORD" /\ oi <= Len(open_access_nodes) /\ oi' = oi + 1

\* The fingerprint of the node the processing loop is at.
FingerprintAtHand == calc_hash_of(_normalise_record(nodes[open_access_nodes[oi]]))

EffectivePage == IF start_page < 1 THEN 1 ELSE start_page

\* C1: when the run has returned, every record that passed every stage (it
\* has a DOI, was probed open access, had a new fingerprint, got PDF bytes and
\* an email, and was written) is an entry of the returned list and is counted
\* in total_processed.
C1_PassedRecordsAreReturned ==
    pc = "DONE" =>
        /\ total_processed = n_passed
        /\ Len(processed_articles) = n_passed

\* C2: no more than MAX_ARTICLES records are taken through every stage of a
\* run: after the MAX_ARTICLES-th the run makes no further artifact write.
C2_StopsAtCap == n_passed <= MAX_ARTICLES

\* C3: a record whose fingerprint was already seen in the run causes no PDF
\* fetch, no artifact write, no result entry and no count; a fingerprint
\* a PDF is fetched for is in the seen set from then on, so a later record
\* with the same (doi, title), on this page or a later one, is skipped.
C3_DuplicateIsSkipped ==
    [][ /\ seen_hashes \subseteq seen_hashes'
        /\ ProcessStep =>
              /\ FingerprintAtHand \in seen_hashes =>
                    /\ n_pdf_fetches' = n_pdf_fetches
                    /\ n_saves' = n_saves
                    /\ processed_articles' = processed_articles
                    /\ total_processed' = total_processed
              /\ n_pdf_fetches' # n_pdf_fetches =>
                    FingerprintAtHand \in seen_hashes'
      ]_vars

\* C3 witness: a PDF was fetched for a fingerprint, and a later record on
\* another page, the same identifier with a decoration, was skipped as seen.
C3_Witness ==
    /\ cur.kind = "process" /\ cur.dup
    /\ pages_fetched = 2
    /\ n_pdf_fetches = 1
    /\ nodes = <<2>>
    /\ seen_hashes = {calc_hash_of(_normalise_record(1))}

\* C4: a record whose extraction gave no email (None or empty), or whose PDF
\* fetch gave nothing, causes no save_pdf call, no result entry and no count.
C4_NoEmailNoWrite ==
    [][ ProcessStep /\ ( \/ cur'.email \in {"null", "empty"}
                         \/ cur'.pdf \in {"null", "empty"} ) =>
            /\ n_saves' = n_saves
            /\ processed_articles' = processed_articles
            /\ total_processed' = total_processed
      ]_vars

\* C4 witness: a PDF was fetched and the extraction gave an empty email.
C4_Witness ==
    cur.kind = "process" /\ cur.pdf = "bytes" /\ cur.email = "empty"

\* C5: an exception raised while a node is handled, in either loop, leaves
\* the run in that loop at the next node with the results kept; only the page
\* fetch raises out of the run.
C5_NodeExceptionIsCaught ==
    [][ /\ (FilterStep \/ ProcessStep) /\ cur'.exc =>
              /\ pc' \in {"FILTERING_OPEN_ACCESS", "PROCESSING_RECORD"}
              /\ processed_articles' = processed_articles
              /\ total_processed' = total_processed
              /\ raised_in' = "none"
        /\ pc' = "RAISED" => pc \in {"FETCHING_PAGE", "RAISED"}
      ]_vars

\* C5 witness: save_pdf raised for the first of two open-access nodes and
\* the processing loop is at the second.
C5_Witness ==
    /\ cur.kind = "process" /\ cur.exc /\ cur.save = "raise"
    /\ pc = "PROCESSING_RECORD"
    /\ oi = 2 /\ Len(open_access_nodes) = 2

\* The moves of the run's state machine, with `ends(total, pos)` the
\* condition under which a finished page is the last.
RunMoves(ends(_, _)) ==
    /\ pc = "START" => pc' \in {"START", "FETCHING_PAGE"}
    /\ pc = "FETCHING_PAGE" =>
          /\ pc' \in {"FETCHING_PAGE", "FILTERING_OPEN_ACCESS", "DONE", "RAISED"}
          /\ pc' = "DONE" => nodes' = <<>>
          /\ pc' = "FILTERING_OPEN_ACCESS" => nodes' # <<>>
          /\ pc' = "RAISED" => raised_in' = "page_fetch"
    /\ pc = "FILTERING_OPEN_ACCESS" =>
          pc' \in {"FILTERING_OPEN_ACCESS", "PROCESSING_RECORD"}
    /\ pc = "PROCESSING_RECORD" =>
          pc' \in {"PROCESSING_RECORD", "PAGE_DONE"}
    /\ pc = "PAGE_DONE" =>
          /\ pc' \in {"PAGE_DONE", "FETCHING_PAGE", "DONE"}
          /\ pc' = "DONE" => ends(total_processed, next_pos)
          /\ pc' = "FETCHING_PAGE" => ~ends(total_processed, next_pos)
    /\ pc \in {"DONE", "RAISED"} => pc' = pc

EndsAsClaimed(total, pos) == total >= MAX_ARTICLES \/ IsNone(pos)

EndsOnNoneOrZero(total, pos) ==
    total >= MAX_ARTICLES \/ IsNone(pos) \/ pos = Some(0)

\* C6 as claimed: the run moves START -> FETCHING_PAGE ->
\* FILTERING_OPEN_ACCESS -> PROCESSING_RECORD -> PAGE_DONE -> FETCHING_PAGE
\* or DONE, and ends only at the cap, without a next cursor, on an empty page
\* or by the page fetch raising; otherwise it fetches another page.
C6_EndsOnlyAsClaimed == [][RunMoves(EndsAsClaimed)]_vars

\* C6 amended: the same, with a next cursor of 0 ending the run like a
\* missing one.
C6_EndsOnNoneOrZeroCursor == [][RunMoves(EndsOnNoneOrZero)]_vars

\* C6 witness: the run ended after a non-empty page that carried the next
\* cursor 0, below the cap.
C6_Witness ==
    /\ pc = "DONE"
    /\ nodes # <<>>
    /\ next_pos = Some(0)
    /\ total_processed < MAX_ARTICLES

\* C7: while every finished page was non-empty, carried a next cursor and
\* held a record that passed every stage with a new fingerprint, the run does
\* not go on to fetch a page once MAX_ARTICLES pages are finished.
C7_CapEndsTheRun ==
    pc = "FETCHING_PAGE" => ~(all_good /\ pages_finished >= MAX_ARTICLES)

C9_OnlyProbedTrueProceeds ==
    [][ /\ FilterStep =>
              /\ open_access_nodes' # open_access_nodes =>
                    /\ cur'.probe = "true"
                    /\ open_access_nodes' = Append(open_access_nodes, ni)
              /\ ~Truthy(_normalise_record(nodes[ni]).doi) =>
                    cur'.probe = "not_called"
        /\ ~FilterStep => open_access_nodes' = open_access_nodes
                          \/ open_access_nodes' = <<>>
        /\ ( \/ n_pdf_fetches' # n_pdf_fetches
             \/ n_saves' # n_saves
             \/ processed_articles' # processed_articles ) =>
              /\ ProcessStep
              /\ cur'.idx = open_access_nodes[oi]
      ]_vars

\* C9 witness: the probe answered None for a node with a DOI, and the node
\* was left out of open_access_nodes.
C9_Witness ==
    /\ cur.kind = "filter" /\ cur.probe = "null"
    /\ pc = "PROCESSING_RECORD"
    /\ open_access_nodes = <<>>

(* ----------------------------------------------------------------------- *)
(* Properties of is_openaccess_pdf                                         *)
(* ----------------------------------------------------------------------- *)
\* The response to the last request the call sent; None when that request
\* raised instead of answering.
TerminalResponse ==
    IF probe_requests # <<>> /\ probe_requests[Len(probe_requests)] = "GET"
    THEN get_resp ELSE head_resp

IndicatesPdf(resp) == Contains(ctype_of(resp), <<"p", "d", "f">>)

IsHtml(resp) == Contains(ctype_of(resp), <<"h", "t", "m", "l">>)

C11_NullOnlyOnTransportFailure ==
    probe_pc = "RETURNED" =>
        /\ probe_ret \in {"true", "false", "null"}
        /\ probe_ret = "null" <=> IsNone(TerminalResponse)
        /\ (\A i \in 1..Len(probe_requests) :
               ~IsNone(IF probe_requests[i] = "GET" THEN get_resp ELSE head_resp))
              => probe_ret \in {"true", "false"}

\* C11 witness: the HEAD was answered 405, the fallback GET raised, and the
\* call returned None.
C11_Witness ==
    /\ probe_pc = "RETURNED"
    /\ probe_ret = "null"
    /\ probe_requests = <<"HEAD", "GET">>
    /\ ~IsNone(head_resp) /\ Val(head_resp).status = 405
    /\ IsNone(get_resp)

(* ----------------------------------------------------------------------- *)
(* get_pdf_content_for_wiley                                               *)
(* ----------------------------------------------------------------------- *)
\* The URLs are sequences of pieces, the DOI's characters among them.
\* f"https://agupubs.onlinelibrary.wiley.com/doi/pdfdirect/{doi}?download=true"
build_download_pdf_url_from_doi_for_wiley(doi) ==
    <<"https://agupubs.onlinelibrary.wiley.com/doi/pdfdirect/">> \o doi
        \o <<"?download=true">>

\* Candidates with the landing URLs in front.
Candidates_LandingFirst(doi, landing_url) ==
    (IF Truthy(landing_url)
     THEN <<Val(landing_url), Val(landing_url) \o <<"?download=true">>>>
     ELSE <<>>)
    \o (IF Truthy(doi)
        THEN <<build_download_pdf_url_from_doi_for_wiley(Val(doi))>> ELSE <<>>)

\* Lines 103-110: the direct-download URL of a doi that is given, then the
\* landing URL that is given, bare and with the download parameter.
Candidates(doi, landing_url) ==
    (IF Truthy(doi)
     THEN <<build_download_pdf_url_from_doi_for_wiley(Val(doi))>> ELSE <<>>)
    \o (IF Truthy(landing_url)
        THEN <<Val(landing_url), Val(landing_url) \o <<"?download=true">>>>
        ELSE <<>>)

\* The arguments of a call: a doi and a landing URL, each absent, empty or given.
PdfDois == {None, Some(<<>>), Some(DoiA)}

PdfLandings == {None, Some(<<>>), Some(<<"https://example.org/landing">>)}

\* for attempt in range(2)
PdfTries == 2

\* b"%PDF"
PdfMagic == <<"%", "P", "D", "F">>

\* bytes.startswith
StartsWith(s, prefix) ==
    Len(s) >= Len(prefix) /\ SubSeq(s, 1, Len(prefix)) = prefix

\* The bodies a response may carry: none, a PDF file's, an HTML page's.
Bodies ==
    { <<>>,
      <<"%", "P", "D", "F", "-", "1">>,
      <<"<", "h", "t", "m", "l", ">">> }

PdfCTypes ==
    { None,
      Some(<<"a", "p", "p", "/", "p", "d", "f">>),
      Some(<<"t", "e", "x", "t", "/", "h", "t", "m", "l">>) }

PdfStatuses == {200, 403, 404, 429, 500, 502, 503, 504}

PdfResponses == [status : PdfStatuses, ctype : PdfCTypes, content : Bodies]

\* What session.get may do: raise (None) or answer.
PdfGetOutcomes == {None} \cup {Some(resp) : resp \in PdfResponses}

\* _is_pdf_response with the magic bytes alone deciding.
_is_pdf_response_MagicOnly(resp) ==
    resp.content # <<>> /\ StartsWith(resp.content, PdfMagic)

\* Lines 116-121: the content type names a PDF, or the body starts as one.
_is_pdf_response(resp) ==
    \/ Contains(ctype_of(resp), <<"p", "d", "f">>)
    \/ (resp.content # <<>> /\ StartsWith(resp.content, PdfMagic))

\* PdfTransient without the status 403.
PdfTransient_No403(status) == status \in {429, 500, 502, 503, 504}

\* if status in (403, 429, 500, 502, 503, 504):                (line 137)
PdfTransient(status) == status \in {403, 429, 500, 502, 503, 504}

\* time.sleep(0.5 * (2 ** attempt)), in milliseconds
PdfBackoff(attempt) == 500 * 2 ^ attempt

\* PdfOnException with the candidate given up at once.
PdfOnException_GiveUp(attempt) == [then |-> "break", sleep |-> 0]

\* except Exception as e: print(...); time.sleep(...); continue  (lines 142-145)
PdfOnException(attempt) == [then |-> "continue", sleep |-> PdfBackoff(attempt)]

\* Lines 126-145: what one try does after its GET: return the body, sleep
\* and continue with the inner loop, or break out of it.
PdfAfterGet(out, attempt) ==
    IF IsNone(out) THEN PdfOnException(attempt)
    ELSE IF Val(out).status = 200 /\ _is_pdf_response(Val(out))
    THEN [then |-> "return", sleep |-> 0]
    ELSE IF PdfTransient(Val(out).status)
    THEN [then |-> "continue", sleep |-> PdfBackoff(attempt)]
    ELSE [then |-> "break", sleep |-> 0]

\* Lines 103-124: the candidate list; without a candidate the loops are
\* skipped and line 147 returns None.
PdfStart ==
    /\ f_pc = "START"
    /\ f_candidates' = Candidates(f_doi, f_landing)
    /\ f_pc' = IF f_candidates' = <<>> THEN "RETURNED" ELSE "GET"
    /\ f_ci' = 1
    /\ f_attempt' = 0
    /\ f_ret' = None
    /\ UNCHANGED <<f_doi, f_landing, f_last, f_slept, f_tried>>
    /\ UNCHANGED <<hvars, pvars, gvars, dvars, evars, svars>>

\* Lines 124-147: one try of one candidate.
PdfGet ==
    /\ f_pc = "GET"
    /\ f_tried' = Append(f_tried, f_ci)
    /\ \E out \in PdfGetOutcomes :
          LET after == PdfAfterGet(out, f_attempt)
              leave == after.then = "break" \/ f_attempt + 1 >= PdfTries
          IN  /\ f_last' = out
              /\ f_slept' = after.sleep
              /\ IF after.then = "return"
                 THEN /\ f_pc' = "RETURNED"
                      /\ f_ret' = Some(Val(out).content)
                      /\ UNCHANGED <<f_ci, f_attempt>>
                 ELSE /\ f_ci' = IF leave THEN f_ci + 1 ELSE f_ci
                      /\ f_attempt' = IF leave THEN 0 ELSE f_attempt + 1
                      /\ f_pc' = IF leave /\ f_ci = Len(f_candidates)
                               THEN "RETURNED" ELSE "GET"
                      /\ f_ret' = None
    /\ UNCHANGED <<f_doi, f_landing, f_candidates>>
    /\ UNCHANGED <<hvars, pvars, gvars, dvars, evars, svars>>

NextPdf ==
    \/ PdfStart
    \/ PdfGet

InitPdf ==
    /\ ProbeInit
    /\ HarvestInit
    /\ start_page = 1
    /\ \E doi \in PdfDois, landing_url \in PdfLandings : PdfInit(doi, landing_url)
    /\ PageInit
    /\ DoiInit(None)
    /\ ExtractInit(NoDoc)
    /\ SaveInit(<<>>, <<>>, FALSE)

SpecPdf == InitPdf /\ [][NextPdf]_vars

(* ----------------------------------------------------------------------- *)
(* Properties of get_pdf_content_for_wiley                                 *)
(* ----------------------------------------------------------------------- *)
\* The latest GET was answered 200 with a PDF content type or with a body
\* that starts with the magic bytes.
Answered200Pdf ==
    /\ ~IsNone(f_last)
    /\ Val(f_last).status = 200
    /\ \/ IndicatesPdf(Val(f_last))
       \/ StartsWith(Val(f_last).content, PdfMagic)

\* A step that sent a GET.
PdfTry == f_pc = "GET" /\ f_tried' # f_tried

\* The try after this one is the same candidate's next, while the budget of
\* 2 lasts; else the next candidate's first, or the return of None after the
\* last candidate.
RetriesWithinBudget ==
    /\ IsNone(f_ret')
    /\ f_attempt + 1 < 2 =>
          f_pc' = "GET" /\ f_ci' = f_ci /\ f_attempt' = f_attempt + 1
    /\ f_attempt + 1 >= 2 =>
          /\ f_ci' = f_ci + 1 /\ f_attempt' = 0
          /\ f_pc' = (IF f_ci < Len(f_candidates) THEN "GET" ELSE "RETURNED")

\* C12 as claimed: a response with status 200 and a PDF content type or a
\* body starting with %PDF ends the call, which returns bytes that start
\* with %PDF; a call that ended without such a response returned None.
C12_ReturnsPdfBytes ==
    f_pc # "START" =>
        /\ Answered200Pdf =>
              /\ f_pc = "RETURNED"
              /\ ~IsNone(f_ret)
              /\ StartsWith(Val(f_ret), PdfMagic)
        /\ (f_pc = "RETURNED" /\ ~Answered200Pdf) => IsNone(f_ret)

\* C12 amended: such a response ends the call, which returns that response's
\* body; the bytes start with %PDF when the body does, which the body of a
\* response taken on its content type need not; a call that ended without
\* such a response returned None.
C12_ReturnsAcceptedBody ==
    f_pc # "START" =>
        /\ Answered200Pdf =>
              /\ f_pc = "RETURNED"
              /\ f_ret = Some(Val(f_last).content)
              /\ StartsWith(Val(f_last).content, PdfMagic)
                    => StartsWith(Val(f_ret), PdfMagic)
        /\ (f_pc = "RETURNED" /\ ~Answered200Pdf) => IsNone(f_ret)

\* C12 witness: the second candidate answered 200 with a PDF content type and
\* an HTML body, and the call returned that body.
C12_Witness ==
    /\ f_pc = "RETURNED"
    /\ f_ci = 2
    /\ Answered200Pdf
    /\ f_ret = Some(<<"<", "h", "t", "m", "l", ">">>)

\* C13: a response with status 403, 429, 500, 502, 503 or 504 is followed by
\* a sleep of 0.5 * 2^attempt seconds and the same candidate's next try while
\* the budget of 2 lasts; a response with any other status that is not a PDF
\* answered 200 is followed by no sleep and the next candidate's first try.
C13_TransientStatusBacksOff ==
    [][ (PdfTry /\ ~IsNone(f_last')) =>
          LET status == Val(f_last').status
          IN  /\ status \in {403, 429, 500, 502, 503, 504} =>
                    /\ f_slept' = 500 * 2 ^ f_attempt
                    /\ RetriesWithinBudget
              /\ (status \notin {403, 429, 500, 502, 503, 504}
                    /\ f_pc' = "GET") =>
                    /\ f_slept' = 0
                    /\ f_ci' = f_ci + 1
                    /\ f_attempt' = 0
              /\ (status \notin {403, 429, 500, 502, 503, 504}
                    /\ f_pc' = "RETURNED" /\ IsNone(f_ret')) =>
                    /\ f_slept' = 0
                    /\ f_ci = Len(f_candidates)
      ]_vars

\* C13 witness: the first try of a candidate was answered 403; half a second
\* was slept and the candidate's second try is next.
C13_Witness ==
    /\ f_pc = "GET"
    /\ ~IsNone(f_last) /\ Val(f_last).status = 403
    /\ f_ci = 1 /\ f_attempt = 1
    /\ f_tried = <<1>>
    /\ f_slept = 500

\* C14: a GET that raises is followed by a sleep of 0.5 * 2^attempt seconds
\* and a retry within the budget of 2, and the call never ends but by
\* returning; when the candidates are exhausted without success, and when
\* there is no candidate, it returns None.
C14_ExceptionIsTransient ==
    [][ /\ f_pc' \in {"START", "GET", "RETURNED"}
        /\ (PdfTry /\ IsNone(f_last')) =>
              /\ f_slept' = 500 * 2 ^ f_attempt
              /\ RetriesWithinBudget
        /\ (PdfTry /\ f_pc' = "RETURNED" /\ f_ci' > Len(f_candidates)) =>
              IsNone(f_ret')
        /\ (f_pc = "START" /\ f_pc' # "START"
              /\ ~Truthy(f_doi) /\ ~Truthy(f_landing)) =>
              /\ f_pc' = "RETURNED"
              /\ IsNone(f_ret')
              /\ f_tried' = <<>>
      ]_vars

\* C14 witness: the only candidate raised on both tries, a second was slept
\* after the latter, and the call returned None.
C14_Witness ==
    /\ f_pc = "RETURNED"
    /\ IsNone(f_ret)
    /\ Len(f_candidates) = 1
    /\ f_tried = <<1, 1>>
    /\ IsNone(f_last)
    /\ f_slept = 1000

(* ----------------------------------------------------------------------- *)
(* _fetch_wiley_page                                                       *)
(* ----------------------------------------------------------------------- *)
\* retries: int = 4, and the orchestrator passes retries=4
retries == 4

\* pause: float = 0.5, in milliseconds
pause == 500

\* str.isdigit() on the characters the modelled texts use
IsAllDigits(s) == s # <<>> /\ \A i \in 1..Len(s) : IsDigit(s[i])

DigitValue(c) ==
    CASE c = "0" -> 0 [] c = "1" -> 1 [] c = "2" -> 2 [] c = "3" -> 3
      [] c = "4" -> 4 [] c = "5" -> 5 [] c = "6" -> 6 [] c = "7" -> 7
      [] c = "8" -> 8 [] c = "9" -> 9

\* int(s) of a digit string
RECURSIVE ToInt(_)
ToInt(s) ==
    IF s = <<>> THEN 0
    ELSE 10 * ToInt(SubSeq(s, 1, Len(s) - 1)) + DigitValue(s[Len(s)])

\* The digits a text starts with.
RECURSIVE LeadingDigits(_)
LeadingDigits(s) ==
    IF s # <<>> /\ IsDigit(Head(s)) THEN <<Head(s)>> \o LeadingDigits(Tail(s))
    ELSE <<>>

\* next_pos_of with the digits the text starts with taken for the number.
next_pos_of_Lenient(element) ==
    IF IsNone(element) \/ LeadingDigits(Strip(Val(element))) = <<>> THEN None
    ELSE Some(ToInt(LeadingDigits(Strip(Val(element)))))

\* Lines 192-194: string(.//zs:nextRecordPosition) is "" without the
\* element; nxt = nxt.strip(); next_pos = int(nxt) if nxt.isdigit() else None
next_pos_of(element) ==
    LET nxt == Strip(IF IsNone(element) THEN <<>> ELSE Val(element))
    IN  IF IsAllDigits(nxt) THEN Some(ToInt(nxt)) ELSE None

\* The texts of zs:nextRecordPosition: no element, "", "21", " 21 ", "0",
\* "abc", "2a".
NextRecordPositions ==
    { None, Some(<<>>), Some(<<"2", "1">>), Some(<<" ", "2", "1", " ">>),
      Some(<<"0">>), Some(<<"a", "b", "c">>), Some(<<"2", "a">>) }

\* The record nodes of a response, as indexes into NodeTable.
PageNodes == {<<>>, <<1>>, <<1, 3>>}

PageStatuses == {200, 204, 403, 404, 429, 500, 502, 503, 504}

\* What requests.get may do in one attempt: raise a RequestException, answer
\* 200 with an SRU document, or answer another status.
PageAttempts ==
    {[NoAttempt EXCEPT !.kind = "exc", !.exc = e] : e \in TransportErrors}
    \cup {[NoAttempt EXCEPT !.kind = "resp", !.status = st] :
             st \in PageStatuses \ {200}}
    \cup {[kind |-> "resp", exc |-> "none", status |-> 200, nxt |-> x,
           nodes |-> n] : x \in NextRecordPositions, n \in PageNodes}

\* if r.status_code in (403, 429, 500, 502, 503, 504):          (line 196)
PageTransient(status) == status \in {403, 429, 500, 502, 503, 504}

\* PageBackoff with the attempt left out.
PageBackoff_Fixed(attempt) == pause

\* time.sleep((2 ** attempt) * pause)
PageBackoff(attempt) == (2 ^ attempt) * pause

\* r.raise_for_status(): HTTPError for a status from 400 to 599, else nothing.
raise_for_status(status) ==
    IF 400 <= status /\ status < 600 THEN "HTTPError" ELSE "none"

\* except requests.RequestException: the exceptions of requests.get and the
\* HTTPError of raise_for_status are all of that class.
IsRequestException(e) == e \in TransportErrors \cup {"HTTPError"}

\* Lines 187-203: what one attempt does after requests.get: return the page,
\* or go on with the loop after a sleep (0 for none), remembering the
\* exception caught (exc, "none" for none).  The HTTPError of
\* raise_for_status is raised inside the try and caught by its handler.
PageAfterAttempt(got, attempt) ==
    LET go_on == [then |-> "continue", sleep |-> 0, exc |-> "none"]
        caught(e) == [go_on EXCEPT !.sleep = PageBackoff(attempt), !.exc = e]
    IN
    IF got.kind = "exc" /\ IsRequestException(got.exc) THEN caught(got.exc)
    ELSE IF got.status = 200 THEN [go_on EXCEPT !.then = "return"]
    ELSE IF PageTransient(got.status)
    THEN [go_on EXCEPT !.sleep = PageBackoff(attempt)]
    ELSE LET e == raise_for_status(got.status)
         IN  IF IsRequestException(e) THEN caught(e) ELSE go_on

\* Lines 186-206: one attempt of the loop, and after the last attempt the
\* lines behind the loop: raise last_exc if there is one, else return ([], None).
PageTry ==
    /\ g_pc = "TRY"
    /\ g_attempt < retries
    /\ g_attempt' = g_attempt + 1
    /\ \E got \in PageAttempts :
          LET after == PageAfterAttempt(got, g_attempt)
              last_exc == IF after.then = "continue" /\ after.exc # "none"
                          THEN after.exc ELSE g_last_exc
          IN  /\ g_last' = got
              /\ g_last_exc' = last_exc
              /\ g_sleeps' = IF after.sleep > 0 THEN Append(g_sleeps, after.sleep)
                             ELSE g_sleeps
              /\ IF after.then = "return"
                 THEN /\ g_pc' = "RETURNED"
                      /\ g_ret' = Some([nodes |-> got.nodes,
                                        next_pos |-> next_pos_of(got.nxt)])
                      /\ g_raised' = g_raised
                 ELSE IF g_attempt + 1 < retries
                 THEN /\ g_pc' = "TRY"
                      /\ UNCHANGED <<g_ret, g_raised>>
                 ELSE IF last_exc # "none"
                 THEN /\ g_pc' = "RAISED"
                      /\ g_ret' = g_ret
                      /\ g_raised' = last_exc
                 ELSE /\ g_pc' = "RETURNED"
                      /\ g_ret' = Some([nodes |-> <<>>, next_pos |-> None])
                      /\ g_raised' = g_raised
    /\ UNCHANGED <<hvars, pvars, fvars, dvars, evars, svars>>

NextPage == PageTry

InitPage ==
    /\ ProbeInit
    /\ HarvestInit
    /\ start_page = 1
    /\ PdfInit(None, None)
    /\ PageInit
    /\ DoiInit(None)
    /\ ExtractInit(NoDoc)
    /\ SaveInit(<<>>, <<>>, FALSE)

SpecPage == InitPage /\ [][NextPage]_vars

(* ----------------------------------------------------------------------- *)
(* Properties of _fetch_wiley_page                                         *)
(* ----------------------------------------------------------------------- *)
\* A step that made a GET attempt.
PageAttempt == g_pc = "TRY" /\ g_attempt' = g_attempt + 1

\* The latest attempt was answered 200.
Answered200 == g_last.kind = "resp" /\ g_last.status = 200

C16_OtherStatusRaisesAtOnce ==
    [][ ( /\ PageAttempt
          /\ g_last'.kind = "resp"
          /\ g_last'.status \notin {200, 403, 429, 500, 502, 503, 504} ) =>
            /\ g_pc' = "RAISED"
            /\ g_sleeps' = g_sleeps
      ]_vars

\* C17: a call that has ended without an attempt answered 200 has raised an
\* exception and returned no page.
C17_ExhaustionRaises ==
    (g_pc # "TRY" /\ ~Answered200) =>
        /\ g_pc = "RAISED"
        /\ g_raised # "none"
        /\ IsNone(g_ret)

\* C18: a call that returns after an attempt answered 200 returns that
\* response's record nodes and, as next position, the integer the text of
\* nextRecordPosition spells (21 for "21" and for " 21 "), None when the
\* element is absent or its text is no number; and with a next position of
\* None the loop of process_wiley_library does not go on, whatever the count.
C18_NextPositionParsed ==
    (g_pc = "RETURNED" /\ Answered200) =>
        /\ ~IsNone(g_ret)
        /\ Val(g_ret).nodes = g_last.nodes
        /\ g_last.nxt \in {Some(<<"2", "1">>), Some(<<" ", "2", "1", " ">>)} =>
              Val(g_ret).next_pos = Some(21)
        /\ g_last.nxt = Some(<<"0">>) => Val(g_ret).next_pos = Some(0)
        /\ ( \/ IsNone(g_last.nxt)
             \/ \E i \in 1..Len(Strip(Val(g_last.nxt))) :
                    ~IsDigit(Strip(Val(g_last.nxt))[i])
             \/ Strip(Val(g_last.nxt)) = <<>> ) =>
              IsNone(Val(g_ret).next_pos)
        /\ IsNone(Val(g_ret).next_pos) =>
              \A total \in 0..MAX_ARTICLES :
                  ~LoopContinues(total, Val(g_ret).next_pos)

\* C18 witness: the second attempt was answered 200 with two record nodes and
\* the text "2a": the nodes were returned with the next position None.
C18_Witness ==
    /\ g_pc = "RETURNED"
    /\ g_attempt = 2
    /\ Answered200
    /\ g_last.nxt = Some(<<"2", "a">>)
    /\ g_ret = Some([nodes |-> <<1, 3>>, next_pos |-> None])

(* ----------------------------------------------------------------------- *)
(* clean_doi applied to an input and to its own result                     *)
(* ----------------------------------------------------------------------- *)
\* How long the part of an input behind its head is at most.
MaxTail == 3

\* The inputs: None, and a head (nothing, a DOI prefix with 4 digits, one with
\* 2 digits, one that starts with "11.", one without the slash) between an
\* optional blank and a tail of letters, "@" and blanks.
DoiHeads ==
    { <<>>,
      <<"1", "0", ".", "1", "0", "0", "2", "/">>,
      <<"1", "0", ".", "1", "2", "/">>,
      <<"1", "1", ".", "1", "0", "0", "2", "/">>,
      <<"1", "0", ".", "1", "0", "0", "2">> }

DoiInputs ==
    {None} \cup
    {Some(lead \o head \o tail) :
        lead \in {<<>>, <<" ">>}, head \in DoiHeads,
        tail \in SeqsUpTo({"a", "@", " "}, MaxTail)}

CleanOnce ==
    /\ d_pc = "INPUT"
    /\ d_once' = clean_doi(d_raw)
    /\ d_pc' = "ONCE"
    /\ UNCHANGED <<d_raw, d_twice>>
    /\ UNCHANGED <<hvars, pvars, fvars, gvars, evars, svars>>

CleanTwice ==
    /\ d_pc = "ONCE"
    /\ d_twice' = clean_doi(d_once)
    /\ d_pc' = "TWICE"
    /\ UNCHANGED <<d_raw, d_once>>
    /\ UNCHANGED <<hvars, pvars, fvars, gvars, evars, svars>>

NextDoi ==
    \/ CleanOnce
    \/ CleanTwice

InitDoi ==
    /\ ProbeInit
    /\ HarvestInit
    /\ start_page = 1
    /\ PdfInit(None, None)
    /\ PageInit
    /\ \E raw \in DoiInputs : DoiInit(raw)
    /\ ExtractInit(NoDoc)
    /\ SaveInit(<<>>, <<>>, FALSE)

SpecDoi == InitDoi /\ [][NextDoi]_vars

(* ----------------------------------------------------------------------- *)
(* Properties of clean_doi                                                 *)
(* ----------------------------------------------------------------------- *)
\* C19: clean_doi applied to its own result gives that result again.
C19_Idempotent == d_pc = "TWICE" => d_twice = d_once

\* The trimmed input, for an input that is a non-empty string.
Trimmed == Strip(Val(d_raw))

\* The trimmed input matches the identifier pattern at its start.
MatchesPattern ==
    /\ ~IsNone(d_raw) /\ Val(d_raw) # <<>>
    /\ DOI_CORE_RE(Trimmed) > 0

\* Where the suffix of a matching input starts: behind "10.", the digits and "/".
SuffixStart == 4 + DigitRun(Trimmed, 4) + 1

HasAt(s) == \E k \in 1..Len(s) : s[k] = "@"

\* The input up to the first "@" among the positions `from` and later,
\* the whole input without one.
UpToFirstAt(s, from) ==
    LET ats == {k \in from..Len(s) : s[k] = "@"}
    IN  IF ats = {} THEN s
        ELSE SubSeq(s, 1, (CHOOSE k \in ats : \A j \in ats : k <= j) - 1)

\* C20 as claimed: for an input whose trimmed form matches the pattern the
\* result is the trimmed input up to its first "@" and holds no "@"; without
\* an "@" it is the trimmed input unchanged.
C20_CutsAtFirstAt ==
    (d_pc # "INPUT" /\ MatchesPattern) =>
        /\ ~IsNone(d_once)
        /\ ~HasAt(Val(d_once))
        /\ Val(d_once) = UpToFirstAt(Trimmed, 1)
        /\ ~HasAt(Trimmed) => Val(d_once) = Trimmed

\* C20 amended: the result is the trimmed input up to the first "@" behind
\* the first character of the suffix, and holds no "@" but, possibly, as that
\* first character; without an "@" it is the trimmed input unchanged.
C20_CutsAtFirstAtBehindSuffixStart ==
    (d_pc # "INPUT" /\ MatchesPattern) =>
        /\ ~IsNone(d_once)
        /\ Val(d_once) = UpToFirstAt(Trimmed, SuffixStart + 1)
        /\ \A k \in 1..Len(Val(d_once)) :
              Val(d_once)[k] = "@" => k = SuffixStart
        /\ ~HasAt(Trimmed) => Val(d_once) = Trimmed

\* C20 witness: " 10.1002/@a@" gives "10.1002/@a": the "@" that starts the
\* suffix is kept and the one behind it starts the part cut off.
C20_Witness ==
    /\ d_pc = "ONCE"
    /\ d_raw = Some(<<" ", "1", "0", ".", "1", "0", "0", "2", "/", "@", "a", "@">>)
    /\ d_once = Some(<<"1", "0", ".", "1", "0", "0", "2", "/", "@", "a">>)

\* The part of s from its first to its last character that is no whitespace.
Core(s) ==
    LET ink == {k \in 1..Len(s) : ~IsSpace(s[k])}
    IN  IF ink = {} THEN <<>>
        ELSE SubSeq(s, CHOOSE k \in ink : \A j \in ink : k <= j,
                       CHOOSE k \in ink : \A j \in ink : k >= j)

\* C21: clean_doi returns None for None and for the empty string; for any
\* other input it returns a string without whitespace at either end, and for
\* one whose trimmed form does not match the pattern that trimmed form, the
\* input without its surrounding whitespace, unchanged.
C21_TrimsAndPassesThrough ==
    d_pc # "INPUT" =>
        /\ (IsNone(d_raw) \/ d_raw = Some(<<>>)) => IsNone(d_once)
        /\ (~IsNone(d_raw) /\ d_raw # Some(<<>>)) =>
              /\ ~IsNone(d_once)
              /\ Val(d_once) # <<>> =>
                    /\ ~IsSpace(Val(d_once)[1])
                    /\ ~IsSpace(Val(d_once)[Len(Val(d_once))])
              /\ ~MatchesPattern => Val(d_once) = Core(Val(d_raw))

\* C21 witness: " 10.12/a ", whose prefix has too few digits for the pattern,
\* gives "10.12/a".
C21_Witness ==
    /\ d_pc = "ONCE"
    /\ d_raw = Some(<<" ", "1", "0", ".", "1", "2", "/", "a", " ">>)
    /\ d_once = Some(<<"1", "0", ".", "1", "2", "/", "a">>)


(* ----------------------------------------------------------------------- *)
(* Further properties of process_wiley_library                             *)
(* ----------------------------------------------------------------------- *)
\* C22: the set of seen fingerprints only grows, and an iteration of the
\* processing loop that reaches the PDF fetch (and with it anything behind
\* it: the extraction, the write) has put the record's fingerprint, new until
\* then, into the set, also when the iteration then ends on a missing PDF,
\* a missing email or an exception.
C22_SeenBeforeSideEffects ==
    [][ /\ seen_hashes \subseteq seen_hashes'
        /\ (ProcessStep /\ cur'.pdf # "not_called") =>
              /\ FingerprintAtHand \notin seen_hashes
              /\ FingerprintAtHand \in seen_hashes'
        /\ (n_pdf_fetches' # n_pdf_fetches \/ n_saves' # n_saves) =>
              /\ ProcessStep
              /\ FingerprintAtHand \in seen_hashes' ]_vars

\* C22 witness: a record whose PDF fetch returned None was skipped, its
\* fingerprint is in the set and nothing was written.
C22_Witness ==
    /\ cur.kind = "process"
    /\ cur.pdf = "null"
    /\ cur.idx = 1
    /\ seen_hashes = {calc_hash_of(_normalise_record(nodes[1]))}
    /\ n_saves = 0

\* The position the run starts at.
InitialCursor ==
    IF start_page < 1 THEN 1 ELSE (start_page - 1) * BATCH_SIZE + 1

\* C23: the cursor is first set to 1 when start_page < 1 and to
\* (start_page - 1) * BATCH_SIZE + 1 otherwise; every page is fetched at the
\* cursor as it stands, and the cursor is changed by nothing but a page
\* fetch, which sets it to the next position it returns.
C23_FetchesAtTheCursor ==
    [][ /\ pc = "START" => next_pos' = Some(InitialCursor)
        /\ pc = "FETCHING_PAGE" =>
              /\ fetched_at' = next_pos
              /\ pages_fetched = 0 => fetched_at' = Some(InitialCursor)
        /\ pc \notin {"START", "FETCHING_PAGE"} =>
              /\ next_pos' = next_pos
              /\ fetched_at' = fetched_at ]_vars

\* C23 witness: with start_page = 2 the first page was fetched at 21 and
\* returned one record and the next position 22; the second page was fetched
\* at 22.
C23_Witness ==
    /\ start_page = 2
    /\ pages_fetched = 2
    /\ pages_finished = 1
    /\ fetched_at = Some(BATCH_SIZE + 2)

\* C24: one insert call is made for every record that passed all stages.
C24_OneInsertPerPassingRecord == n_inserts = n_passed

\* The node indexes of a list rise strictly.
InPageOrder(idxs) ==
    \A k \in 1..Len(idxs) - 1 : idxs[k] < idxs[k + 1]

\* C29: no PDF is fetched by a step of the filter loop or while a node of
\* the page is still to be probed; the collected open-access nodes stand in
\* the order of the page, and the processing loop takes them one by one in
\* that order.
C29_ProbesThenProcessesInOrder ==
    [][ /\ FilterStep => n_pdf_fetches' = n_pdf_fetches
        /\ n_pdf_fetches' # n_pdf_fetches =>
              /\ ProcessStep
              /\ ni > Len(nodes)
        /\ InPageOrder(open_access_nodes')
        /\ ProcessStep =>
              /\ cur'.idx = open_access_nodes[oi]
              /\ open_access_nodes' = open_access_nodes ]_vars

\* C29 witness: both nodes of a page were probed open access, and the PDF of
\* the second was fetched after that of the first.
C29_Witness ==
    /\ cur.kind = "process"
    /\ cur.idx = 2
    /\ open_access_nodes = <<1, 2>>
    /\ oi = 3
    /\ n_pdf_fetches = 2

\* C30: no two writes of a run that belong to different fingerprints go to
\* the same file.
C30_OneFingerprintPerArtifact ==
    \A a, b \in artifacts : a.name = b.name => a.calc_hash = b.calc_hash


(* ----------------------------------------------------------------------- *)
(* Further properties of get_pdf_content_for_wiley and is_openaccess_pdf   *)
(* ----------------------------------------------------------------------- *)
\* The URL of the k-th GET of the call.
UrlTried(k) == f_candidates[f_tried[k]]

\* The URLs a call may ask, in the order the claim gives them.
DirectUrl == <<"https://agupubs.onlinelibrary.wiley.com/doi/pdfdirect/">>
                 \o Val(f_doi) \o <<"?download=true">>

LandingUrl == Val(f_landing)

LandingDownloadUrl == Val(f_landing) \o <<"?download=true">>

\* The rank of a URL in the order direct download, landing, landing with
\* the download parameter.
RankOf(url) ==
    IF Truthy(f_doi) /\ url = DirectUrl THEN 1
    ELSE IF Truthy(f_landing) /\ url = LandingUrl THEN 2
    ELSE IF Truthy(f_landing) /\ url = LandingDownloadUrl THEN 3
    ELSE 0

\* C27: the GETs of a call go to the direct-download URL (only with a DOI),
\* the landing URL and the landing URL with the download parameter (only with
\* a landing URL), in this order and never back to an earlier one; no URL is
\* asked more than PdfTries = 2 times and no call sends more than 6 GETs; a
\* GET answered 200 with a PDF ends the call, and a call that has returned
\* sends nothing more.
C27_CandidatesInOrder ==
    [][ /\ \A k \in 1..Len(f_tried') :
              /\ RankOf(f_candidates'[f_tried'[k]]) \in 1..3
              /\ k > 1 => RankOf(f_candidates'[f_tried'[k - 1]])
                             <= RankOf(f_candidates'[f_tried'[k]])
        /\ \A c \in 1..3 :
              Cardinality({k \in 1..Len(f_tried') :
                              RankOf(f_candidates'[f_tried'[k]]) = c}) <= 2
        /\ Len(f_tried') <= 6
        /\ (PdfTry /\ Answered200Pdf') => f_pc' = "RETURNED"
        /\ f_pc = "RETURNED" => f_tried' = f_tried ]_vars

\* C27 witness: with a DOI and a landing URL, each of the three candidates
\* was asked twice, in order, and the call returned None after six GETs.
C27_Witness ==
    /\ f_pc = "RETURNED"
    /\ Len(f_candidates) = 3
    /\ f_tried = <<1, 1, 2, 2, 3, 3>>
    /\ RankOf(UrlTried(1)) = 1
    /\ RankOf(UrlTried(6)) = 3
    /\ IsNone(f_ret)

\* The HEAD answer asks for the fallback as the claim gives it: it is not a
\* 200 with a PDF type, and its status is 403, 404 or 405 or it has no
\* content type.
HeadBlockedOrInconclusive ==
    /\ ~IsNone(head_resp)
    /\ ~(Val(head_resp).status = 200 /\ IndicatesPdf(Val(head_resp)))
    /\ \/ Val(head_resp).status \in {403, 404, 405}
       \/ ~Truthy(Val(head_resp).ctype)

\* C28: a call sends a HEAD first and at most one GET behind it, and nothing
\* else; the GET is sent exactly when the HEAD was answered, not with a 200
\* and a PDF type, and with status 403, 404 or 405 or without a content type;
\* the result is then True for a GET answered 200 with a PDF type, None for a
\* GET that failed and False otherwise, whatever the HEAD answer was.
C28_OneHeadThenAtMostOneGet ==
    /\ probe_pc = "HEAD" => probe_requests = <<>>
    /\ probe_pc = "GET" => probe_requests = <<"HEAD">> /\ HeadBlockedOrInconclusive
    /\ probe_pc = "RETURNED" =>
          /\ probe_requests \in {<<"HEAD">>, <<"HEAD", "GET">>}
          /\ probe_requests = <<"HEAD", "GET">> <=> HeadBlockedOrInconclusive
          /\ probe_requests = <<"HEAD", "GET">> =>
                probe_ret = IF IsNone(get_resp) THEN "null"
                            ELSE IF /\ Val(get_resp).status = 200
                                    /\ IndicatesPdf(Val(get_resp))
                            THEN "true" ELSE "false"

\* C28 witness: the HEAD was answered 405, the GET 200 with a PDF type, and
\* the call returned True.
C28_Witness ==
    /\ probe_pc = "RETURNED"
    /\ probe_requests = <<"HEAD", "GET">>
    /\ Val(head_resp).status = 405
    /\ Truthy(Val(head_resp).ctype)
    /\ probe_ret = "true"


(* ----------------------------------------------------------------------- *)
(* extract_principal_author_and_email                                      *)
(* ----------------------------------------------------------------------- *)
\* The pages PdfReader may find in a document.
MaxPages == 2

UpperLetters ==
    {"A", "B", "C", "D", "E", "F", "G", "H", "I", "J", "K", "L", "M", "N", "O",
     "P", "Q", "R", "S", "T", "U", "V", "W", "X", "Y", "Z"}

LowerLetters ==
    {"a", "b", "c", "d", "e", "f", "g", "h", "i", "j", "k", "l", "m", "n", "o",
     "p", "q", "r", "s", "t", "u", "v", "w", "x", "y", "z"}

\* [A-Z]
IsUpper(c) == c \in UpperLetters

\* [a-z]
IsLower(c) == c \in LowerLetters

\* [\w\.-]
EmailChars ==
    UpperLetters \cup LowerLetters
        \cup {"0", "1", "2", "3", "4", "5", "6", "7", "8", "9", "_", ".", "-"}

\* \s
Spaces == {" ", "\n", "\t"}

\* The end of the longest run of characters of a class that starts at i;
\* i - 1 when there is none.
RunEnd(s, i, class) ==
    CHOOSE e \in (i - 1)..Len(s) :
        /\ \A k \in i..e : s[k] \in class
        /\ e = Len(s) \/ s[e + 1] \notin class

\* re.match of [\w\.-]+@[\w\.-]+ at position i: the end of the match, 0
\* without one.
EmailAt(s, i) ==
    LET e1 == RunEnd(s, i, EmailChars)
    IN  IF e1 >= i /\ e1 + 1 <= Len(s) /\ s[e1 + 1] = "@"
        THEN LET e2 == RunEnd(s, e1 + 2, EmailChars)
             IN  IF e2 >= e1 + 2 THEN e2 ELSE 0
        ELSE 0

\* emails = re.findall(r'[\w\.-]+@[\w\.-]+', text)
\* email = emails[0] if emails else None                       (lines 68-69)
FirstEmail(text) ==
    LET starts == {i \in 1..Len(text) : EmailAt(text, i) > 0}
    IN  IF starts = {} THEN None
        ELSE LET i == CHOOSE k \in starts : \A j \in starts : k <= j
             IN  Some(SubSeq(text, i, EmailAt(text, i)))

\* [A-Z][a-z]+ at position i: the end of the word, 0 without one.
CapEnd(s, i) ==
    IF i + 1 <= Len(s) /\ IsUpper(s[i]) /\ IsLower(s[i + 1])
    THEN RunEnd(s, i + 1, LowerLetters) ELSE 0

\* (?:\s+[A-Z][a-z]+)* behind a word that ends at e: the end of the last
\* word taken.
RECURSIVE NameExtend(_, _)
NameExtend(s, e) ==
    LET w == RunEnd(s, e + 1, Spaces)
    IN  IF w >= e + 1 /\ CapEnd(s, w + 1) > 0
        THEN NameExtend(s, CapEnd(s, w + 1)) ELSE e

\* ([A-Z][a-z]+(?:\s+[A-Z][a-z]+)+) at position i: the end of the match, 0
\* without one.
NameAt(s, i) ==
    IF CapEnd(s, i) = 0 THEN 0
    ELSE IF NameExtend(s, CapEnd(s, i)) > CapEnd(s, i)
    THEN NameExtend(s, CapEnd(s, i)) ELSE 0

\* re.findall of the name pattern in s from position i on.
RECURSIVE FindAllNames(_, _)
FindAllNames(s, i) ==
    IF i > Len(s) THEN <<>>
    ELSE IF NameAt(s, i) > 0
    THEN <<SubSeq(s, i, NameAt(s, i))>> \o FindAllNames(s, NameAt(s, i) + 1)
    ELSE FindAllNames(s, i + 1)

\* name_matches[-1] if name_matches else None
LastName(s) ==
    LET name_matches == FindAllNames(s, 1)
    IN  IF name_matches = <<>> THEN None
        ELSE Some(name_matches[Len(name_matches)])

\* text.split(email)[0]: the text in front of the first occurrence of email.
BeforeFirst(text, email) ==
    LET at == {i \in 1..(Len(text) - Len(email) + 1) :
                  SubSeq(text, i, i + Len(email) - 1) = email}
    IN  IF at = {} THEN text
        ELSE SubSeq(text, 1, (CHOOSE k \in at : \A j \in at : k <= j) - 1)

\* str.splitlines()
RECURSIVE SplitLines(_)
SplitLines(s) ==
    LET nl == {k \in 1..Len(s) : s[k] = "\n"}
    IN  IF s = <<>> THEN <<>>
        ELSE IF nl = {} THEN <<s>>
        ELSE LET k == CHOOSE a \in nl : \A b \in nl : a <= b
             IN  <<SubSeq(s, 1, k - 1)>> \o SplitLines(SubSeq(s, k + 1, Len(s)))

\* lines = [l.strip() for l in before_email.splitlines() if l.strip()]
RECURSIVE StrippedLines(_)
StrippedLines(ls) ==
    IF ls = <<>> THEN <<>>
    ELSE (IF Strip(Head(ls)) # <<>> THEN <<Strip(Head(ls))>> ELSE <<>>)
         \o StrippedLines(Tail(ls))

\* for line in reversed(lines[-5:]): the last match of the first line,
\* from the back, that has one.
RECURSIVE NameInLines(_, _)
NameInLines(lines, left) ==
    IF lines = <<>> \/ left = 0 THEN None
    ELSE IF ~IsNone(LastName(lines[Len(lines)])) THEN LastName(lines[Len(lines)])
    ELSE NameInLines(SubSeq(lines, 1, Len(lines) - 1), left - 1)

\* GuessName with the whole text searched.
GuessName_WholeText(text, email) ==
    LET lines == StrippedLines(SplitLines(text))
        name == NameInLines(lines, 5)
    IN  IF ~Truthy(name) THEN LastName(text) ELSE name

\* Lines 74-84: the name guessed for an email that was found.
GuessName(text, email) ==
    LET before_email == BeforeFirst(text, email)
        lines == StrippedLines(SplitLines(before_email))
        name == NameInLines(lines, 5)
    IN  IF ~Truthy(name) THEN LastName(before_email) ELSE name

\* Lines 68-86: the pair returned for a text that is not blank.
SearchText(text) ==
    LET email == FirstEmail(text)
    IN  [name |-> IF Truthy(email) THEN GuessName(text, Val(email)) ELSE None,
         email |-> email]

\* return None, None
NonePair == [name |-> None, email |-> None]

\* The texts page.extract_text() may give.
PageTexts ==
    { <<>>,
      <<" ", "\n">>,
      <<"A", "b", " ", "C", "d">>,
      <<"a", "@", "b">>,
      <<"A", "b", " ", "C", "d", "\n", "a", "@", "b">>,
      <<"A", "b", "\n", "C", "d", "\n", "a", "@", "b">>,
      <<"a", "@", "b", "\n", "E", "f", " ", "G", "h">> }

\* A page of the document: extract_text returns a text or None (kind "text",
\* "none"), or raises (kind "raise"); or the page cannot be got from the
\* document at all, and the iteration over reader.pages raises ("broken").
PageKinds ==
    {[kind |-> "text", text |-> t] : t \in PageTexts}
    \cup {[kind |-> k, text |-> <<>>] : k \in {"none", "raise", "broken"}}

\* What PdfReader may find in pdf_content: nothing it can open, or pages.
Docs ==
    {NoDoc} \cup {[readable |-> TRUE, pages |-> ps] : ps \in SeqsUpTo(PageKinds, MaxPages)}

\* OnPageError with the loop over the pages left.
OnPageError_Break == "break"

\* except Exception: continue                                  (lines 60-61)
OnPageError == "continue"

\* Line 53: reader = PdfReader(BytesIO(pdf_content)); a failure goes to the
\* handler of lines 87-89.
ExtractOpen ==
    /\ e_pc = "OPEN"
    /\ IF e_doc.readable
       THEN /\ e_pc' = "PAGES"
            /\ e_ret' = e_ret
       ELSE /\ e_pc' = "RETURNED"
            /\ e_ret' = Some(NonePair)
    /\ UNCHANGED <<e_doc, e_i, e_parts, e_text>>
    /\ UNCHANGED <<hvars, pvars, fvars, gvars, dvars, svars>>

\* Lines 55-61: one page of the loop.
ExtractPage ==
    /\ e_pc = "PAGES"
    /\ e_i <= Len(e_doc.pages)
    /\ LET pg == e_doc.pages[e_i]
       IN  /\ e_parts' = IF pg.kind = "text" /\ pg.text # <<>>
                         THEN Append(e_parts, pg.text) ELSE e_parts
           /\ e_i' = IF pg.kind = "raise" /\ OnPageError = "break"
                     THEN Len(e_doc.pages) + 1 ELSE e_i + 1
           /\ IF pg.kind = "broken"
              THEN /\ e_pc' = "RETURNED"
                   /\ e_ret' = Some(NonePair)
              ELSE /\ e_pc' = e_pc
                   /\ e_ret' = e_ret
    /\ UNCHANGED <<e_doc, e_text>>
    /\ UNCHANGED <<hvars, pvars, fvars, gvars, dvars, svars>>

\* Lines 62-86: the text is joined and searched.
ExtractFinish ==
    /\ e_pc = "PAGES"
    /\ e_i > Len(e_doc.pages)
    /\ e_text' = Some(Join(e_parts, <<"\n">>))
    /\ e_ret' = IF Strip(Val(e_text')) = <<>> THEN Some(NonePair)
                ELSE Some(SearchText(Val(e_text')))
    /\ e_pc' = "RETURNED"
    /\ UNCHANGED <<e_doc, e_i, e_parts>>
    /\ UNCHANGED <<hvars, pvars, fvars, gvars, dvars, svars>>

NextExtract ==
    \/ ExtractOpen
    \/ ExtractPage
    \/ ExtractFinish

InitExtract ==
    /\ ProbeInit
    /\ HarvestInit
    /\ start_page = 1
    /\ PdfInit(None, None)
    /\ PageInit
    /\ DoiInit(None)
    /\ \E doc \in Docs : ExtractInit(doc)
    /\ SaveInit(<<>>, <<>>, FALSE)

SpecExtract == InitExtract /\ [][NextExtract]_vars

(* ----------------------------------------------------------------------- *)
(* Properties of extract_principal_author_and_email                        *)
(* ----------------------------------------------------------------------- *)
\* The texts of the pages of a list that gave one, in order.
RECURSIVE TextsOf(_)
TextsOf(ps) ==
    IF ps = <<>> THEN <<>>
    ELSE (IF Head(ps).kind = "text" /\ Head(ps).text # <<>>
          THEN <<Head(ps).text>> ELSE <<>>) \o TextsOf(Tail(ps))

\* The document opens and every page of it can be got.
Parses ==
    e_doc.readable /\ \A k \in 1..Len(e_doc.pages) : e_doc.pages[k].kind # "broken"

\* C25: every call returns a pair.  A document that cannot be opened, or a
\* page that cannot be got from it, gives (None, None); else the text that
\* is searched is made of the texts of all pages that gave one, in order,
\* whatever pages between them raised in extract_text; and a document whose
\* pages give no text but whitespace gives (None, None).
C25_NeverRaisesSkipsPages ==
    /\ e_pc = "RETURNED" <=> ~IsNone(e_ret)
    /\ e_pc = "RETURNED" =>
          /\ ~Parses => Val(e_ret) = NonePair
          /\ Parses =>
                /\ e_text = Some(Join(TextsOf(e_doc.pages), <<"\n">>))
                /\ Strip(Val(e_text)) = <<>> => Val(e_ret) = NonePair
                /\ FirstEmail(Val(e_text)) = Val(e_ret).email

\* C25 witness: the first page raised in extract_text, the second gave
\* "a@b", and the call returned that email.
C25_Witness ==
    /\ e_pc = "RETURNED"
    /\ Len(e_doc.pages) = 2
    /\ e_doc.pages[1].kind = "raise"
    /\ e_doc.pages[2].kind = "text"
    /\ Val(e_ret).email = Some(<<"a", "@", "b">>)


(* ----------------------------------------------------------------------- *)
(* save_pdf                                                                *)
(* ----------------------------------------------------------------------- *)
\* The names save_pdf is called with: without an ending, with ".pdf" in
\* several cases, with a part of it, the ending alone, empty, absolute.
SaveNames ==
    { <<"a">>,
      <<"a", ".", "p", "d", "f">>,
      <<"a", ".", "P", "D", "F">>,
      <<"a", ".", "P", "d", "f">>,
      <<"a", ".", "p", "d">>,
      <<"a", "p", "d", "f">>,
      <<".", "p", "d", "f">>,
      <<>>,
      <<"/", "a">> }

\* The bytes save_pdf is called with.
SaveContents == {<<>>, PdfMagic, <<"<", "h", "t", "m", "l", ">">>}

\* What a call of the operating system may do.
OsOutcomes == {"ok", "OSError"}

\* The name of the call at hand: the name, then the name plus ".pdf".
CallName == IF s_call = 1 THEN s_name ELSE s_name \o <<".", "p", "d", "f">>

\* with open(full_path, "wb") as f: f.write(pdf_content)        (lines 33-34)
WriteFile(files, path, content) ==
    {f \in files : f.path # path} \cup {[path |-> path, content |-> content]}

\* Lines 19-23: os.makedirs(downloads_dir, exist_ok=True).
SaveMakedirs ==
    /\ s_pc = "MAKEDIRS"
    /\ \E os \in OsOutcomes :
          IF os = "ok"
          THEN s_dir' = TRUE /\ s_pc' = "WRITE"
          ELSE s_dir' = s_dir /\ s_pc' = "RAISED"
    /\ UNCHANGED <<s_call, s_name, s_content, s_files, s_rets>>
    /\ UNCHANGED <<hvars, pvars, fvars, gvars, dvars, evars>>

\* Lines 26-37: the ending, the path, the write and the return.  After the
\* first call has returned, the second is made.
SaveWrite ==
    /\ s_pc = "WRITE"
    /\ \E os \in OsOutcomes :
          IF os = "ok"
          THEN /\ s_files' = WriteFile(s_files, full_path_of(CallName), s_content)
               /\ s_rets' = Append(s_rets, full_path_of(CallName))
               /\ s_pc' = IF s_call = 1 THEN "MAKEDIRS" ELSE "RETURNED"
               /\ s_call' = IF s_call = 1 THEN 2 ELSE s_call
          ELSE /\ s_pc' = "RAISED"
               /\ UNCHANGED <<s_files, s_rets, s_call>>
    /\ UNCHANGED <<s_name, s_content, s_dir>>
    /\ UNCHANGED <<hvars, pvars, fvars, gvars, dvars, evars>>

NextSave ==
    \/ SaveMakedirs
    \/ SaveWrite

InitSave ==
    /\ ProbeInit
    /\ HarvestInit
    /\ start_page = 1
    /\ PdfInit(None, None)
    /\ PageInit
    /\ DoiInit(None)
    /\ ExtractInit(NoDoc)
    /\ \E name \in SaveNames, content \in SaveContents, dir \in BOOLEAN :
          SaveInit(name, content, dir)

SpecSave == InitSave /\ [][NextSave]_vars

(* ----------------------------------------------------------------------- *)
(* Properties of save_pdf                                                  *)
(* ----------------------------------------------------------------------- *)
\* The last four characters of a name are ".pdf" in some case.
HasPdfEnding(name) ==
    /\ Len(name) >= 4
    /\ name[Len(name) - 3] = "."
    /\ name[Len(name) - 2] \in {"p", "P"}
    /\ name[Len(name) - 1] \in {"d", "D"}
    /\ name[Len(name)] \in {"f", "F"}

\* The file name a call is to write for a name.
ExpectedFileName(name) ==
    IF HasPdfEnding(name) THEN name ELSE name \o <<".", "p", "d", "f">>

\* The content of the file at a path.
ContentAt(path) == {f.content : f \in {g \in s_files : g.path = path}}

\* The first call has returned.
FirstSaved == Len(s_rets) >= 1

\* Both calls have returned.
BothSaved == Len(s_rets) = 2

\* C26: a call that returns has made sure the downloads directory exists,
\* has written exactly the given bytes to the file whose name is the given
\* name, with ".pdf" appended only when the name does not end in ".pdf" in
\* any case, and returns the path of that file; and for a name that does not
\* already end in ".pdf", the call with the name and the call with the name
\* plus ".pdf" write the same file.
C26_SavesUnderPdfName ==
    /\ FirstSaved =>
          /\ s_dir
          /\ EndsWith(s_rets[1], ExpectedFileName(s_name))
          /\ s_name = <<>> \/ s_name[1] # "/" =>
                s_rets[1] = downloads_dir \o <<"/">> \o ExpectedFileName(s_name)
          /\ \A k \in 1..Len(s_rets) : ContentAt(s_rets[k]) = {s_content}
    /\ (BothSaved /\ ~HasPdfEnding(s_name)) =>
          /\ s_rets[2] = s_rets[1]
          /\ Cardinality(s_files) = 1

\* C26 as stated: for every name, the call with the name and the call with
\* the name plus ".pdf" write the same file.
C26_NamePlusPdfIsSameFile ==
    BothSaved => s_rets[2] = s_rets[1]

\* C26 witness: the calls with "a" and with "a.pdf" both wrote the PDF bytes
\* to downloads/a.pdf.
C26_Witness ==
    /\ BothSaved
    /\ s_name = <<"a">>
    /\ s_content = PdfMagic
    /\ s_rets[1] = downloads_dir \o <<"/", "a", ".", "p", "d", "f">>
    /\ s_rets[2] = s_rets[1]


(* ----------------------------------------------------------------------- *)
(* The counters of process_wiley_library                                   *)
(* ----------------------------------------------------------------------- *)
\* C31: in every state of a run total_processed is the length of
\* processed_articles, is at most the number of fingerprints in seen_hashes
\* and at most the number of files written so far; and no step lowers
\* total_processed or takes a fingerprint out of seen_hashes.
C31_CountersAgree ==
    /\ [](/\ total_processed = Len(processed_articles)
          /\ total_processed <= Cardinality(seen_hashes)
          /\ total_processed <= n_written)
    /\ [][ /\ total_processed' >= total_processed
           /\ seen_hashes \subseteq seen_hashes' ]_vars

\* C31 witness: a run that has returned after two records with different
\* fingerprints were written.
C31_Witness ==
    /\ pc = "DONE"
    /\ Cardinality(seen_hashes) = 2
    /\ n_written = 2
    /\ n_passed = 2
    /\ total_processed = Len(processed_articles)


(* ----------------------------------------------------------------------- *)
(* The pair of extract_principal_author_and_email                          *)
(* ----------------------------------------------------------------------- *)
\* The text in front of the first place the returned email stands at.
PrecedingText ==
    LET text == Val(e_text)
        email == Val(Val(e_ret).email)
        at == {i \in 1..Len(text) :
                  /\ i + Len(email) - 1 <= Len(text)
                  /\ \A k \in 1..Len(email) : text[i + k - 1] = email[k]}
    IN  SubSeq(text, 1, (CHOOSE i \in at : \A j \in at : i <= j) - 1)

\* A text holds two capitalised words with whitespace between them.
HasNameShape(text) == \E i \in 1..Len(text) : NameAt(text, i) > 0

\* C32: a call returns a name only together with an email; a text without
\* an email-shaped token gives (None, None); and a name that is returned
\* stands in the text in front of the first occurrence of the returned
\* email, which is the first email of the text, while a text with no name
\* in front of that place gives no name, whatever names stand behind it.
C32_NameOnlyBeforeFirstEmail ==
    e_pc = "RETURNED" =>
        /\ ~IsNone(Val(e_ret).name) => ~IsNone(Val(e_ret).email)
        /\ (~IsNone(e_text) /\ ~Contains(Val(e_text), <<"@">>)) =>
              Val(e_ret) = NonePair
        /\ ~IsNone(Val(e_ret).email) =>
              /\ Val(e_ret).email = FirstEmail(Val(e_text))
              /\ ~IsNone(Val(e_ret).name) =>
                    /\ Val(Val(e_ret).name) # <<>>
                    /\ Contains(PrecedingText, Val(Val(e_ret).name))
              /\ ~HasNameShape(PrecedingText) => IsNone(Val(e_ret).name)

\* C32 witness: the text "a@b\nEf Gh", with its only name behind the email,
\* gave the email and no name.
C32_Witness ==
    /\ e_pc = "RETURNED"
    /\ e_text = Some(<<"a", "@", "b", "\n", "E", "f", " ", "G", "h">>)
    /\ Val(e_ret).email = Some(<<"a", "@", "b">>)
    /\ IsNone(Val(e_ret).name)

====
